---- MODULE Spec2Model ----
(***************************************************************************)
(* Model of the hybrid multi-tier storage core of the remote shuffle       *)
(* worker: memory store (budget, tickets, per-partition buffers), the      *)
(* watermark spill of the hybrid store and the spill handler that moves a  *)
(* flight to a persistent tier and then releases it from memory.           *)
(***************************************************************************)
EXTENDS Integers, Sequences, FiniteSets, TLC

(***************************************************************************)
(* Bounds of the model                                                     *)
(***************************************************************************)
\* memory capacity of the store, in bytes (configuration value)
Capacity == 10
\* number of tickets the budget hands out in one behaviour
MaxTickets == 3
\* number of blocks clients create in one behaviour
MaxBlocks == 3
\* capacity of the spill event queue
MaxBus == 1
\* the clock stops here
MaxTime == 300
\* number of blocks a cursor reader collects
MaxReadLog == 4
\* total space of a local disk, in bytes
DiskCapacity == 10

(***************************************************************************)
(* Program constants and configuration                                     *)
(***************************************************************************)
\* TicketManager::new(5 * 60, 10, ...)
TicketTimeoutSec == 300
\* memory_spill_high_watermark and memory_spill_low_watermark, in percent
HighWatermarkPct == 50
LowWatermarkPct == 20
\* memory_spill_to_cold_threshold_size: Some(ColdThreshold)
ColdThreshold == 3
\* retry_cnt > 3 is refused by memory_spill_to_persistent_store
MaxRetry == 3
\* last_block_id that means "from the beginning"
INVALID_BLOCK_ID == -1

Apps == {"a1", "a2"}
Shuffles == {0, 1}
\* PartitionedUId (app_id, shuffle_id, partition_id)
UIds == { [app_id |-> "a1", shuffle_id |-> 0, partition_id |-> 0],
          [app_id |-> "a1", shuffle_id |-> 1, partition_id |-> 0],
          [app_id |-> "a2", shuffle_id |-> 0, partition_id |-> 0] }
TaskIds == {0, 1}
\* Block.length of the blocks the clients send
BlockLens == {1, 3}
\* the sizes clients reserve: two that fill the capacity together, one beyond it
ReqSizes == {2, Capacity - 2, Capacity + 1}

(***************************************************************************)
(* Helpers on sequences                                                    *)
(***************************************************************************)
RECURSIVE SumLen(_)
SumLen(blocks) ==
  IF blocks = <<>> THEN 0 ELSE Head(blocks).length + SumLen(Tail(blocks))

Ids(blocks) == [i \in 1..Len(blocks) |-> blocks[i].block_id]

IsPrefix(s, t) == Len(s) <= Len(t) /\ \A i \in 1..Len(s) : s[i] = t[i]

NoDup(s) == \A i, j \in 1..Len(s) : i # j => s[i] # s[j]

SetMin(S) == CHOOSE x \in S : \A y \in S : x <= y
SetMax(S) == CHOOSE x \in S : \A y \in S : x >= y

(***************************************************************************)
(* Memory budget: capacity / allocated / used                              *)
(***************************************************************************)
MemoryBudget_new(cap) == [capacity |-> cap, allocated |-> 0, used |-> 0]

require_allocated(b, n) ==
  IF b.used + b.allocated + n <= b.capacity
  THEN [ok |-> TRUE, b |-> [b EXCEPT !.allocated = @ + n]]
  ELSE [ok |-> FALSE, b |-> b]

move_allocated_to_used(b, n) ==
  IF b.allocated >= n
  THEN [ok |-> TRUE, b |-> [b EXCEPT !.allocated = @ - n, !.used = @ + n]]
  ELSE [ok |-> FALSE, b |-> b]

dec_used(b, n) ==
  IF b.used >= n
  THEN [ok |-> TRUE, b |-> [b EXCEPT !.used = @ - n]]
  ELSE [ok |-> FALSE, b |-> b]

dec_allocated(b, n) ==
  IF b.allocated >= n
  THEN [ok |-> TRUE, b |-> [b EXCEPT !.allocated = @ - n]]
  ELSE [ok |-> FALSE, b |-> b]

(***************************************************************************)
(* Memory buffer of one partition                                          *)
(***************************************************************************)
MemoryBuffer_new ==
  [staging |-> <<>>, flights |-> <<>>, total_size |-> 0,
   staging_size |-> 0, flight_counter |-> 0]

\* append(blocks, size): push into staging, add size to the counters
buffer_append(buf, blocks, size) ==
  [buf EXCEPT !.staging = @ \o blocks,
              !.total_size = @ + size,
              !.staging_size = @ + size]

\* spill(): staging becomes a new flight with a fresh flight id
buffer_spill(buf) ==
  LET fid == buf.flight_counter + 1
  IN [flight_id |-> fid, blocks |-> buf.staging, flight_len |-> buf.staging_size,
      buf |-> [buf EXCEPT !.staging = <<>>,
                          !.staging_size = 0,
                          !.flight_counter = fid,
                          !.flights = [f \in (DOMAIN buf.flights) \cup {fid} |->
                                         IF f = fid THEN buf.staging ELSE buf.flights[f]]]]

\* clear(flight_id, flight_len): drop the flight; unknown flight is an error
buffer_clear(buf, flight_id, flight_len) ==
  IF flight_id \in DOMAIN buf.flights
  THEN [ok |-> TRUE,
        buf |-> [buf EXCEPT !.flights = [f \in (DOMAIN buf.flights) \ {flight_id} |-> buf.flights[f]],
                            !.total_size = @ - flight_len]]
  ELSE [ok |-> FALSE, buf |-> buf]

\* all flights by ascending flight id, then staging
RECURSIVE FlightsView(_, _)
FlightsView(flights, ids) ==
  IF ids = {} THEN <<>>
  ELSE LET m == SetMin(ids) IN flights[m] \o FlightsView(flights, ids \ {m})

buffer_view(buf) == FlightsView(buf.flights, DOMAIN buf.flights) \o buf.staging

\* a cursor that finds nothing when its block is not in the view
blocks_after_strict(view, last_block_id) ==
  LET pos == {i \in 1..Len(view) : view[i].block_id = last_block_id}
  IN IF last_block_id = INVALID_BLOCK_ID THEN view
     ELSE IF pos = {} THEN <<>>
     ELSE SubSeq(view, SetMin(pos) + 1, Len(view))

\* the blocks after the position of last_block_id; the whole view when the
\* id is -1 or is not the id of any block
blocks_after(view, last_block_id) ==
  LET pos == {i \in 1..Len(view) : view[i].block_id = last_block_id}
  IN IF last_block_id = INVALID_BLOCK_ID \/ pos = {}
     THEN view
     ELSE SubSeq(view, SetMin(pos) + 1, Len(view))

\* filter: absent, or the set of expected task attempt ids
NoFilter == [some |-> FALSE, ids |-> {}]
SomeFilter(ids) == [some |-> TRUE, ids |-> ids]

\* a loop that charges the blocks the filter rejects to the limit
RECURSIVE read_partial_count_skipped(_, _, _, _)
read_partial_count_skipped(blocks, fetched_size, fetched_size_limit, filter) ==
  IF blocks = <<>> THEN <<>>
  ELSE LET block == Head(blocks) IN
       IF fetched_size >= fetched_size_limit
       THEN <<>>
       ELSE IF filter.some /\ block.task_attempt_id \notin filter.ids
            THEN read_partial_count_skipped(Tail(blocks), fetched_size + block.length,
                                            fetched_size_limit, filter)
            ELSE <<block>> \o read_partial_count_skipped(Tail(blocks),
                                                         fetched_size + block.length,
                                                         fetched_size_limit, filter)

\* the loop of read_partial_data_with_max_size_limit_and_filter
RECURSIVE read_partial(_, _, _, _)
read_partial(blocks, fetched_size, fetched_size_limit, filter) ==
  IF blocks = <<>> THEN <<>>
  ELSE LET block == Head(blocks) IN
       IF filter.some /\ block.task_attempt_id \notin filter.ids
       THEN read_partial(Tail(blocks), fetched_size, fetched_size_limit, filter)
       ELSE IF fetched_size >= fetched_size_limit
            THEN <<>>
            ELSE <<block>> \o read_partial(Tail(blocks), fetched_size + block.length,
                                           fetched_size_limit, filter)

read_partial_data_with_max_size_limit_and_filter(blocks, fetched_size_limit, filter) ==
  read_partial(blocks, 0, fetched_size_limit, filter)

buffer_get(buf, last_block_id, max_size, filter) ==
  read_partial_data_with_max_size_limit_and_filter(
      blocks_after(buffer_view(buf), last_block_id), max_size, filter)


(***************************************************************************)
(* State                                                                   *)
(***************************************************************************)
VARIABLES
  budget,               \* MemoryStore.budget
  ticket_budget,        \* the budget the ticket manager's release callback holds
  callback_on_store,    \* TRUE after MemoryStore::new, FALSE after MemoryStore::from
  config,               \* HybridStore: the persistent stores it was built with
  disks,                \* LocalDiskDelegator per disk root: health flags, free space
  memory_spill_lock,    \* HybridStore.memory_spill_lock: its holder
  inserters,            \* the callers of HybridStore::insert: where each one is
  ticket_seq,           \* last ticket id handed out
  tickets,              \* TicketManager: ticket id -> [size, app_id, created_at]
  now,                  \* clock, in seconds
  state,                \* MemoryStore.state: uid -> buffer
  in_flush_buffer_size, \* MemoryStore.in_flush_buffer_size
  bus,                  \* spill messages queued in the event bus
  acked,                \* spill messages written to a tier, release pending
  held,                 \* the spill handler inside clear_spilled_memory_buffer
  warm_idx,             \* warm tier: uid -> blocks listed by the index file
  cold_idx,             \* cold tier: uid -> blocks listed by the index file
  clients,              \* cold tier: apps with a registered client
  files,                \* warm and cold tier: uid -> data file, index file, cached meta
  writers,              \* the tasks inside HdfsStore::data_insert, step by step
  block_seq,            \* last block id the clients created
  appended,             \* uid -> ids of the blocks appended since the last purge
  reader,               \* a client reading one partition by cursor
  ret                   \* what the last operation returned

vars == <<budget, ticket_budget, callback_on_store, config, disks, memory_spill_lock,
          inserters, held, ticket_seq, tickets, now,
          state, in_flush_buffer_size, bus, acked, warm_idx, cold_idx, clients,
          files, writers, block_seq, appended, reader, ret>>

ticketVars == <<ticket_seq, tickets>>
lockVars == <<memory_spill_lock, inserters>>
spillVars == <<in_flush_buffer_size, bus, acked>>
tierVars == <<warm_idx, cold_idx, clients, files>>

\* the tasks that call HdfsStore::data_insert at the same time
Writers == {"w1", "w2", "w3"}
\* a task outside data_insert
NotWriting == [pc |-> "idle"]

\* the tasks that call HybridStore::insert at the same time
Callers == {"c1", "c2"}
\* Mutex::new(()): nobody holds the lock
Unlocked == "unlocked"
\* a caller outside insert
NotInserting == [pc |-> "idle", result |-> TRUE]

\* the roots of the local disks, one LocalDiskDelegator each
Disks == {"d1", "d2"}

\* LocalDiskDelegator::new: is_healthy true, is_corrupted false; available is
\* what the file system reports as free space of the root
LocalDiskDelegator_new ==
  [is_healthy |-> TRUE, is_corrupted |-> FALSE, available |-> DiskCapacity]

\* the partition the cursor reader follows
ReaderUId == [app_id |-> "a1", shuffle_id |-> 0, partition_id |-> 0]

EmptyIdx == [u \in UIds |-> <<>>]

\* the partitions a persistent store can hold: those the clients write through
\* the hybrid store, and one of a shuffle whose id starts with the digits of
\* another's
FileUIds == UIds \cup {[app_id |-> "a1", shuffle_id |-> 10, partition_id |-> 0]}

\* a partition no store has written: no entry in partition_file_locks, no
\* cached meta, no files
NoFile == [lock |-> FALSE, cached |-> FALSE, data_len |-> 0, exists |-> FALSE,
           data |-> <<>>, index |-> <<>>]
EmptyFiles == [t \in {"warm", "cold"} |-> [u \in FileUIds |-> NoFile]]

\* the handler is not between obtaining a buffer and clearing a flight in it
Idle == [pc |-> "idle"]

\* threshold: absent, or the configured size
NoThreshold == [some |-> FALSE, v |-> 0]
SomeThreshold(v) == [some |-> TRUE, v |-> v]

\* HybridStore::from: the persistent stores are localfile, then hdfs, as far as
\* the storage type has them; warm is the first of them, cold the second
StoreConfig(has_localfile, has_hdfs, threshold) ==
  [warm_store |-> IF has_localfile THEN "localfile"
                  ELSE IF has_hdfs THEN "hdfs" ELSE "none",
   cold_store |-> IF has_localfile /\ has_hdfs THEN "hdfs" ELSE "none",
   threshold |-> threshold]

\* MEMORY_LOCALFILE_HDFS with memory_spill_to_cold_threshold_size set
DefaultConfig == StoreConfig(TRUE, TRUE, SomeThreshold(ColdThreshold))

\* every storage type, with and without the threshold
Configs ==
  {StoreConfig(l, h, t) : l \in BOOLEAN, h \in BOOLEAN,
                          t \in {NoThreshold, SomeThreshold(ColdThreshold)}}

\* the store after construction; shared_budget tells which constructor built
\* the memory store, cfg which persistent stores the hybrid store has
InitStore(shared_budget, cfg) ==
  /\ config = cfg
  /\ disks = [d \in Disks |-> LocalDiskDelegator_new]
  /\ memory_spill_lock = Unlocked
  /\ inserters = [c \in Callers |-> NotInserting]
  /\ budget = MemoryBudget_new(Capacity)
  /\ ticket_budget = MemoryBudget_new(Capacity)
  /\ callback_on_store = shared_budget
  /\ ticket_seq = 0
  /\ tickets = <<>>
  /\ now = 0
  /\ state = <<>>
  /\ in_flush_buffer_size = 0
  /\ bus = {}
  /\ acked = {}
  /\ held = Idle
  /\ warm_idx = EmptyIdx
  /\ cold_idx = EmptyIdx
  /\ clients = Apps
  /\ files = EmptyFiles
  /\ writers = [w \in Writers |-> NotWriting]
  /\ block_seq = 0
  /\ appended = EmptyIdx
  /\ reader = [last |-> INVALID_BLOCK_ID, log |-> <<>>]
  /\ ret = [op |-> "init"]

InitWith(shared_budget) == InitStore(shared_budget, DefaultConfig)

\* MemoryStore::from, the constructor the worker uses
Init == InitWith(FALSE)

\* the worker with any storage type
InitConfig == \E cfg \in Configs : InitStore(FALSE, cfg)

\* MemoryStore::from or MemoryStore::new
InitAny == InitWith(FALSE) \/ InitWith(TRUE)

(***************************************************************************)
(* Memory store                                                            *)
(***************************************************************************)
get_buffer(st, uid) == IF uid \in DOMAIN st THEN st[uid] ELSE MemoryBuffer_new

put_buffer(st, uid, buf) ==
  [u \in (DOMAIN st) \cup {uid} |-> IF u = uid THEN buf ELSE st[u]]

\* get_or_create_memory_buffer: the map after the call
get_or_create_memory_buffer(st, uid) == put_buffer(st, uid, get_buffer(st, uid))

\* require_buffer that records the ticket whatever the budget answered
MemRequireBuffer_ticket_always(uid, size) ==
  LET r == require_allocated(budget, size) IN
  /\ ticket_seq < MaxTickets
  /\ budget' = r.b
  /\ ticket_seq' = ticket_seq + 1
  /\ tickets' = [t \in (DOMAIN tickets) \cup {ticket_seq + 1} |->
                   IF t = ticket_seq + 1
                   THEN [size |-> size, app_id |-> uid.app_id, created_at |-> now]
                   ELSE tickets[t]]
  /\ ret' = IF r.ok
            THEN [op |-> "require_buffer", ok |-> TRUE, size |-> size,
                  ticket_id |-> ticket_seq + 1]
            ELSE [op |-> "require_buffer", ok |-> FALSE, size |-> size,
                  err |-> "NO_ENOUGH_MEMORY_TO_BE_ALLOCATED"]
  /\ UNCHANGED <<ticket_budget, callback_on_store, writers, config, disks, lockVars, held, now, state, spillVars, tierVars,
                 block_seq, appended, reader>>

\* MemoryStore::require_buffer
MemRequireBuffer(uid, size) ==
  LET r == require_allocated(budget, size) IN
  /\ ticket_seq < MaxTickets
  /\ budget' = r.b
  /\ IF r.ok
     THEN /\ ticket_seq' = ticket_seq + 1
          /\ tickets' = [t \in (DOMAIN tickets) \cup {ticket_seq + 1} |->
                           IF t = ticket_seq + 1
                           THEN [size |-> size, app_id |-> uid.app_id, created_at |-> now]
                           ELSE tickets[t]]
          /\ ret' = [op |-> "require_buffer", ok |-> TRUE, size |-> size,
                     ticket_id |-> ticket_seq + 1]
     ELSE /\ UNCHANGED ticketVars
          /\ ret' = [op |-> "require_buffer", ok |-> FALSE, size |-> size,
                     err |-> "NO_ENOUGH_MEMORY_TO_BE_ALLOCATED"]
  /\ UNCHANGED <<ticket_budget, callback_on_store, writers, config, disks, lockVars, held, now, state, spillVars, tierVars,
                 block_seq, appended, reader>>

\* TicketManager::delete: remove the ticket and return its size
ticket_delete(tks, ticket_id) ==
  IF ticket_id \in DOMAIN tks
  THEN [ok |-> TRUE, size |-> tks[ticket_id].size,
        tickets |-> [t \in (DOMAIN tks) \ {ticket_id} |-> tks[t]]]
  ELSE [ok |-> FALSE, size |-> 0, tickets |-> tks]

\* MemoryStore::release_buffer (release_ticket of the Store contract)
MemReleaseTicket(ticket_id) ==
  LET r == ticket_delete(tickets, ticket_id) IN
  /\ tickets' = r.tickets
  /\ ret' = IF r.ok
            THEN [op |-> "release_ticket", ok |-> TRUE, ticket_id |-> ticket_id,
                  val |-> r.size]
            ELSE [op |-> "release_ticket", ok |-> FALSE, ticket_id |-> ticket_id,
                  err |-> "TICKET_ID_NOT_EXIST"]
  /\ UNCHANGED <<budget, ticket_budget, callback_on_store, writers, config, disks, lockVars, held, ticket_seq, now, state,
                 spillVars, tierVars, block_seq, appended, reader>>

\* the clock advances by one ticket lifetime
Tick ==
  /\ now + TicketTimeoutSec <= MaxTime
  /\ now' = now + TicketTimeoutSec
  /\ ret' = [op |-> "tick"]
  /\ UNCHANGED <<budget, ticket_budget, callback_on_store, writers, config, disks, lockVars, held, ticketVars, state,
                 spillVars, tierVars, block_seq, appended, reader>>

\* the reaper finds one expired ticket: release callback, then removal
ReapTicket(ticket_id) ==
  /\ ticket_id \in DOMAIN tickets
  /\ now - tickets[ticket_id].created_at >= TicketTimeoutSec
  /\ LET size == tickets[ticket_id].size IN
     IF callback_on_store
     THEN /\ budget' = dec_allocated(budget, size).b
          /\ UNCHANGED ticket_budget
     ELSE /\ ticket_budget' = dec_allocated(ticket_budget, size).b
          /\ UNCHANGED budget
  /\ tickets' = [t \in (DOMAIN tickets) \ {ticket_id} |-> tickets[t]]
  /\ ret' = [op |-> "reap", ticket_id |-> ticket_id]
  /\ UNCHANGED <<callback_on_store, writers, config, disks, lockVars, held, ticket_seq, now, state, spillVars, tierVars,
                 block_seq, appended, reader>>


(***************************************************************************)
(* Hybrid store: insert and watermark spill                                *)
(***************************************************************************)
\* MemoryStore::insert: append to the buffer, then move the budget
MemoryStore_insert(st, b, uid, blocks, size) ==
  LET buf == buffer_append(get_buffer(st, uid), blocks, size)
      mv  == move_allocated_to_used(b, size)
  IN [ok |-> mv.ok, state |-> put_buffer(st, uid, buf), budget |-> mv.b]

\* a check that also passes at the high watermark
over_high_watermark_or_equal(b, in_flush) ==
  (b.used + b.allocated - in_flush) * 100 >= HighWatermarkPct * b.capacity

\* calculate_usage_ratio() > memory_spill_high_watermark
over_high_watermark(b, in_flush) ==
  (b.used + b.allocated - in_flush) * 100 > HighWatermarkPct * b.capacity

\* (capacity as f32 * memory_spill_low_watermark) as i64
mem_target_of(cap) == (cap * LowWatermarkPct) \div 100

\* the orders in which a set can be iterated
OrdersOf(S) ==
  {o \in [1..Cardinality(S) -> S] : \A i, j \in 1..Cardinality(S) : i # j => o[i] # o[j]}

\* iteration of the BTreeMap in reverse: staging size descending, ties in any order
DescendingOrders(st) ==
  {o \in OrdersOf(DOMAIN st) :
     \A i, j \in 1..Len(o) : i < j => st[o[i]].staging_size >= st[o[j]].staging_size}

\* a selection that goes on while the sum equals the required size
RECURSIVE pick_candidates_past(_, _, _, _)
pick_candidates_past(st, order, spill_staging_size, required_spilled_size) ==
  IF order = <<>> \/ spill_staging_size > required_spilled_size
  THEN {}
  ELSE {Head(order)} \cup
       pick_candidates_past(st, Tail(order),
                            spill_staging_size + st[Head(order)].staging_size,
                            required_spilled_size)

\* the loop over the sorted map: a buffer is taken while the sum of the staging
\* sizes taken so far is below the required size
RECURSIVE pick_candidates(_, _, _, _)
pick_candidates(st, order, spill_staging_size, required_spilled_size) ==
  IF order = <<>> \/ spill_staging_size >= required_spilled_size
  THEN {}
  ELSE {Head(order)} \cup
       pick_candidates(st, Tail(order),
                       spill_staging_size + st[Head(order)].staging_size,
                       required_spilled_size)

\* MemoryStore::calculate_spilled_blocks (pickup_spill_blocks)
calculate_spilled_blocks(st, b, mem_target_len, order) ==
  LET required_spilled_size == b.used - mem_target_len
  IN IF required_spilled_size <= 0 THEN {}
     ELSE pick_candidates(st, order, 0, required_spilled_size)

SpillMessage(uid, sp) ==
  [uid |-> uid, blocks |-> sp.blocks, size |-> sp.flight_len, retry_cnt |-> 0,
   previous_tier |-> "none", flight_id |-> sp.flight_id]

\* the loop of watermark_spill over the picked buffers, in iteration order
RECURSIVE spill_loop(_, _, _, _)
spill_loop(st, queue, flushed_size, order) ==
  IF order = <<>>
  THEN [state |-> st, bus |-> queue, flushed_size |-> flushed_size]
  ELSE LET uid == Head(order)
           sp  == buffer_spill(st[uid])
           msg == SpillMessage(uid, sp)
           published == Cardinality(queue) < MaxBus
       IN spill_loop([st EXCEPT ![uid] = sp.buf],
                     IF published THEN queue \cup {msg} ELSE queue,
                     flushed_size + sp.flight_len,
                     Tail(order))

\* HybridStore::watermark_spill: pick the buffers, spill and publish each
watermark_spill(st, b, queue, pick_order, iter_order) ==
  spill_loop(st, queue, 0, iter_order)

\* the buffers watermark_spill gets from the hot store
spill_buffers(st, b, pick_order) ==
  calculate_spilled_blocks(st, b, mem_target_of(b.capacity), pick_order)

\* HybridStore::is_memory_only
is_memory_only(cfg) == cfg.cold_store = "none" /\ cfg.warm_store = "none"

\* HybridStore::insert: hot insert, then the watermark check under the spill lock
HybridInsert(uid, blocks, size) ==
  LET ins == MemoryStore_insert(state, budget, uid, blocks, size) IN
  /\ block_seq + Len(blocks) <= MaxBlocks
  /\ \A i \in 1..Len(blocks) : blocks[i].block_id = block_seq + i
  /\ budget' = ins.budget
  /\ block_seq' = block_seq + Len(blocks)
  /\ appended' = [appended EXCEPT ![uid] = @ \o Ids(blocks)]
  /\ ret' = [op |-> "insert", ok |-> ins.ok]
  /\ IF ~is_memory_only(config) /\ over_high_watermark(ins.budget, in_flush_buffer_size)
     THEN \E pick_order \in DescendingOrders(ins.state) :
            \E iter_order \in OrdersOf(spill_buffers(ins.state, ins.budget, pick_order)) :
                 LET w == watermark_spill(ins.state, ins.budget, bus, pick_order, iter_order)
                 IN /\ state' = w.state
                    /\ bus' = w.bus
                    /\ in_flush_buffer_size' = in_flush_buffer_size + w.flushed_size
     ELSE /\ state' = ins.state
          /\ UNCHANGED <<in_flush_buffer_size, bus>>
  /\ UNCHANGED <<ticket_budget, callback_on_store, writers, config, disks, lockVars, held, ticketVars, now, acked, tierVars, reader>>


(***************************************************************************)
(* Spill handler: tier selection, persistent write, release from memory    *)
(***************************************************************************)
\* a selection that forgets the fallback of a retried message
select_tier_no_fallback(retry_cnt, warm_is_healthy, spill_size, threshold, has_cold) ==
  LET cold == IF has_cold THEN "cold" ELSE "warm"
  IN IF warm_is_healthy
     THEN IF threshold.some /\ threshold.v < spill_size THEN cold ELSE "warm"
     ELSE cold

\* the store memory_spill_to_persistent_store writes to; cold is the second
\* persistent store, or warm itself when there is none
select_tier(retry_cnt, warm_is_healthy, spill_size, threshold, has_cold) ==
  LET cold == IF has_cold THEN "cold" ELSE "warm"
      candidate_store ==
        IF warm_is_healthy
        THEN IF threshold.some /\ threshold.v < spill_size THEN cold ELSE "warm"
        ELSE cold
  IN IF retry_cnt >= 1 THEN cold ELSE candidate_store

\* a spill_insert that writes the blocks as it got them
sort_by_task_attempt_id_keep(blocks, tids) == blocks

\* data.sort_by_key(|block| block.task_attempt_id): a stable sort
RECURSIVE sort_by_task_attempt_id(_, _)
sort_by_task_attempt_id(blocks, tids) ==
  IF tids = {} THEN <<>>
  ELSE LET m == SetMin(tids)
           IsM(b) == b.task_attempt_id = m
       IN SelectSeq(blocks, IsM) \o sort_by_task_attempt_id(blocks, tids \ {m})

\* Block.data: length bytes, each its own
BlockData(b) == [i \in 1..b.length |-> <<b.block_id, i>>]

\* data_bytes_holder after the loop of data_insert
RECURSIVE data_bytes(_)
data_bytes(blocks) ==
  IF blocks = <<>> THEN <<>>
  ELSE BlockData(Head(blocks)) \o data_bytes(Tail(blocks))

\* records that all carry the offset the batch starts at
index_records_flat(blocks, next_offset) ==
  [i \in 1..Len(blocks) |->
     [offset |-> next_offset, length |-> blocks[i].length,
      block_id |-> blocks[i].block_id,
      task_attempt_id |-> blocks[i].task_attempt_id]]

\* index_bytes_holder after the loop of data_insert: one record per block,
\* its offset the running next_offset
RECURSIVE index_records(_, _)
index_records(blocks, next_offset) ==
  IF blocks = <<>> THEN <<>>
  ELSE <<[offset |-> next_offset, length |-> Head(blocks).length,
          block_id |-> Head(blocks).block_id,
          task_attempt_id |-> Head(blocks).task_attempt_id]>>
       \o index_records(Tail(blocks), next_offset + Head(blocks).length)

\* what the appends of one data_insert can do: both succeed, the data append
\* fails, the index append fails after the data append
IoOutcomes == {"ok", "data_err", "index_err"}

\* HdfsStore::data_insert on the files and the cached meta of one partition,
\* under the partition lock, whose entry it creates, and with the client of
\* the app: without cached meta the files are created (create fails on a file
\* that exists) and the default meta is cached; the index records start at the
\* cached data_len; data is appended, then the index, then the cached data_len
\* is reset
data_insert(f, blocks, io) ==
  LET next_offset == IF f.cached THEN f.data_len ELSE 0
      f0 == [f EXCEPT !.lock = TRUE, !.cached = TRUE, !.data_len = next_offset,
                      !.exists = TRUE]
      f1 == [f0 EXCEPT !.data = @ \o data_bytes(blocks)]
      f2 == [f1 EXCEPT !.index = @ \o index_records(blocks, next_offset)]
  IN IF ~f.cached /\ f.exists THEN [ok |-> FALSE, file |-> [f EXCEPT !.lock = TRUE]]
     ELSE IF io = "data_err" THEN [ok |-> FALSE, file |-> f0]
     ELSE IF io = "index_err" THEN [ok |-> FALSE, file |-> f1]
     ELSE [ok |-> TRUE,
           file |-> [f2 EXCEPT !.data_len = next_offset + SumLen(blocks)]]

\* a handler that publishes a failed message again whatever its retry_cnt
republish_always(msg, tier) ==
  {[msg EXCEPT !.retry_cnt = @ + 1, !.previous_tier = tier]}

\* the handler after a failed write: the message is published again with
\* retry_cnt + 1 and previous_tier set while retry_cnt < 3, and given up after
republish(msg, tier) ==
  IF msg.retry_cnt < MaxRetry
  THEN {[msg EXCEPT !.retry_cnt = @ + 1, !.previous_tier = tier]}
  ELSE {}

\* the kind of store behind a tier: "localfile", "hdfs" or "none"
store_of(cfg, tier) == IF tier = "warm" THEN cfg.warm_store ELSE cfg.cold_store

\* what the handler reports of one message
SpillRet(msg, warm_is_healthy, attempted, tier, ok, err) ==
  [op |-> "spill", ok |-> ok, attempted |-> attempted, tier |-> tier, err |-> err,
   uid |-> msg.uid, flight_id |-> msg.flight_id, retry_cnt |-> msg.retry_cnt,
   size |-> msg.size, warm_is_healthy |-> warm_is_healthy]

\* the spill handler takes a message: memory_spill_to_persistent_store, then
\* either the release is pending, or the message is published again
HandlerWriteIO(msg, warm_is_healthy, io) ==
  /\ msg \in bus
  /\ IF msg.retry_cnt > MaxRetry
     THEN /\ bus' = bus \ {msg}
          /\ ret' = SpillRet(msg, warm_is_healthy, FALSE, "none", FALSE,
                             "SPILL_EVENT_EXCEED_RETRY_MAX_LIMIT")
          /\ UNCHANGED <<acked, warm_idx, cold_idx, files>>
     ELSE LET has_warm == config.warm_store # "none"
              tier == IF has_warm
                      THEN select_tier(msg.retry_cnt, warm_is_healthy, msg.size,
                                       config.threshold, config.cold_store # "none")
                      ELSE "none"
              is_hdfs == store_of(config, tier) = "hdfs"
              has_client == has_warm /\ (is_hdfs => msg.uid.app_id \in clients)
              written == IF is_hdfs THEN sort_by_task_attempt_id(msg.blocks, TaskIds)
                         ELSE msg.blocks
              w == IF has_client THEN data_insert(files[tier][msg.uid], written, io)
                   ELSE [ok |-> FALSE, file |-> NoFile]
              ok == has_client /\ w.ok
          IN /\ files' = IF has_client THEN [files EXCEPT ![tier][msg.uid] = w.file]
                         ELSE IF has_warm
                              THEN [files EXCEPT ![tier][msg.uid].lock = TRUE]
                              ELSE files
             /\ IF ok
                THEN /\ bus' = bus \ {msg}
                     /\ acked' = acked \cup {msg}
                     /\ IF tier = "warm"
                        THEN /\ warm_idx' = [warm_idx EXCEPT ![msg.uid] = @ \o written]
                             /\ UNCHANGED cold_idx
                        ELSE /\ cold_idx' = [cold_idx EXCEPT ![msg.uid] = @ \o written]
                             /\ UNCHANGED warm_idx
                     /\ ret' = SpillRet(msg, warm_is_healthy, has_warm, tier, TRUE, "")
                ELSE /\ bus' = (bus \ {msg}) \cup republish(msg, tier)
                     /\ ret' = SpillRet(msg, warm_is_healthy, has_warm, tier, FALSE,
                                        IF msg.retry_cnt < MaxRetry THEN "retry"
                                        ELSE "SPILL_EVENT_EXCEED_RETRY_MAX_LIMIT")
                     /\ UNCHANGED <<acked, warm_idx, cold_idx>>
  /\ UNCHANGED <<budget, ticket_budget, callback_on_store, writers, config, disks, lockVars, held, ticketVars, now, state,
                 in_flush_buffer_size, clients, block_seq, appended, reader>>

\* the handler's write with a remote call that succeeds or fails before
\* anything is appended
HandlerWrite(msg, warm_is_healthy, io_ok) ==
  HandlerWriteIO(msg, warm_is_healthy, IF io_ok THEN "ok" ELSE "data_err")

\* a clear that answers Ok and leaves the flight where it is
clear_spilled_memory_buffer_keep(st, uid, flight_id, flight_len) ==
  [ok |-> TRUE, state |-> get_or_create_memory_buffer(st, uid)]

\* MemoryStore::clear_spilled_memory_buffer
clear_spilled_memory_buffer(st, uid, flight_id, flight_len) ==
  LET st1 == get_or_create_memory_buffer(st, uid)
      c   == buffer_clear(st1[uid], flight_id, flight_len)
  IN [ok |-> c.ok, state |-> [st1 EXCEPT ![uid] = c.buf]]

\* HybridStore::release_data_in_memory: clear the flight, dec_used, dec_inflight
release_data_in_memory(st, b, in_flush, data_size, message) ==
  LET c == clear_spilled_memory_buffer(st, message.uid, message.flight_id, data_size)
      d == dec_used(b, data_size)
  IN IF ~c.ok
     THEN [ok |-> FALSE, state |-> c.state, budget |-> b, in_flush |-> in_flush]
     ELSE IF ~d.ok
          THEN [ok |-> FALSE, state |-> c.state, budget |-> b, in_flush |-> in_flush]
          ELSE [ok |-> TRUE, state |-> c.state, budget |-> d.b,
                in_flush |-> in_flush - data_size]

\* the spill handler after a successful write
HandlerRelease(msg) ==
  LET r == release_data_in_memory(state, budget, in_flush_buffer_size, msg.size, msg) IN
  /\ msg \in acked
  /\ acked' = acked \ {msg}
  /\ state' = r.state
  /\ budget' = r.budget
  /\ in_flush_buffer_size' = r.in_flush
  /\ ret' = [op |-> "release_data_in_memory", ok |-> r.ok, uid |-> msg.uid,
             flight_id |-> msg.flight_id, size |-> msg.size, blocks |-> msg.blocks]
  /\ UNCHANGED <<ticket_budget, callback_on_store, writers, config, disks, lockVars, held, ticketVars, now, bus, tierVars,
                 block_seq, appended, reader>>

\* release_data_in_memory, first step: clear_spilled_memory_buffer obtains the
\* buffer of the partition from the map, creating it when absent
HandlerObtain(msg) ==
  /\ msg \in acked
  /\ held = Idle
  /\ acked' = acked \ {msg}
  /\ state' = get_or_create_memory_buffer(state, msg.uid)
  /\ held' = [pc |-> "obtained", msg |-> msg, detached |-> FALSE, buf |-> MemoryBuffer_new]
  /\ ret' = [op |-> "get_or_create_memory_buffer", uid |-> msg.uid]
  /\ UNCHANGED <<budget, ticket_budget, callback_on_store, writers, config, disks, lockVars, ticketVars, now,
                 in_flush_buffer_size, bus, tierVars, block_seq, appended, reader>>

\* release_data_in_memory, the rest: clear the flight in the buffer obtained,
\* which a purge may have removed from the map since, then dec_used, dec_inflight
HandlerFinish ==
  /\ held.pc = "obtained"
  /\ LET msg == held.msg
         buf == IF held.detached THEN held.buf ELSE state[msg.uid]
         c   == buffer_clear(buf, msg.flight_id, msg.size)
         d   == dec_used(budget, msg.size)
         ok  == c.ok /\ d.ok
     IN /\ state' = IF held.detached THEN state ELSE [state EXCEPT ![msg.uid] = c.buf]
        /\ budget' = IF ok THEN d.b ELSE budget
        /\ in_flush_buffer_size' = IF ok THEN in_flush_buffer_size - msg.size
                                   ELSE in_flush_buffer_size
        /\ ret' = [op |-> "release_data_in_memory", ok |-> ok, uid |-> msg.uid,
                   flight_id |-> msg.flight_id, size |-> msg.size, blocks |-> msg.blocks]
  /\ held' = Idle
  /\ UNCHANGED <<ticket_budget, callback_on_store, writers, config, disks, lockVars, ticketVars, now, bus, acked,
                 tierVars, block_seq, appended, reader>>

(***************************************************************************)
(* Health                                                                  *)
(***************************************************************************)
\* what is_healthy of a store can answer: the memory store and the hdfs store
\* answer Ok(true); the local file store answers Ok(true), Ok(false) or an error
HealthOutcomes(kind) ==
  IF kind = "localfile" THEN {"true", "false", "error"}
  ELSE IF kind \in {"memory", "hdfs"} THEN {"true"}
  ELSE {"absent"}

\* a check that takes a store that is not configured as unhealthy
check_healthy_strict(outcome) == IF outcome = "absent" THEN "false" ELSE outcome

\* check_healthy: the answer of the store, Ok(true) when there is no store
check_healthy(outcome) == IF outcome = "absent" THEN "true" ELSE outcome

\* Result<bool>::unwrap_or(false)
unwrap_or_false(outcome) == outcome = "true"

\* what warm.is_healthy() can answer with Ok in the spill handler
WarmIsHealthy(cfg) ==
  {unwrap_or_false(o) : o \in HealthOutcomes(cfg.warm_store) \ {"error"}}

\* HybridStore::is_healthy
HybridStore_is_healthy(hot, warm, cold) ==
  LET w == unwrap_or_false(check_healthy(warm))
      c == unwrap_or_false(check_healthy(cold))
  IN IF hot = "error" THEN [ok |-> FALSE, val |-> FALSE]
     ELSE [ok |-> TRUE, val |-> (hot = "true") /\ (w \/ c)]

HybridIsHealthy(hot, warm, cold) ==
  LET r == HybridStore_is_healthy(hot, warm, cold) IN
  /\ ret' = [op |-> "is_healthy", ok |-> r.ok, val |-> r.val,
             hot |-> hot, warm |-> warm, cold |-> cold]
  /\ UNCHANGED <<budget, ticket_budget, callback_on_store, writers, config, disks, lockVars, held, ticketVars, now,
                 state, spillVars, tierVars, block_seq, appended, reader>>

(***************************************************************************)
(* Purge                                                                   *)
(***************************************************************************)
NoShuffle == -1

purge_matches(uid, app_id, shuffle_id) ==
  uid.app_id = app_id /\ (shuffle_id = NoShuffle \/ uid.shuffle_id = shuffle_id)

RECURSIVE SumOver(_, _)
SumOver(f, S) ==
  IF S = {} THEN 0 ELSE LET x == CHOOSE y \in S : TRUE IN f[x] + SumOver(f, S \ {x})

\* MemoryStore::purge
MemoryStore_purge(st, b, app_id, shuffle_id) ==
  LET removed == {u \in DOMAIN st : purge_matches(u, app_id, shuffle_id)}
      used == SumOver([u \in removed |-> st[u].total_size], removed)
      d == dec_used(b, used)
  IN [ok |-> d.ok, used |-> used, budget |-> d.b,
      state |-> [u \in (DOMAIN st) \ removed |-> st[u]]]

\* purge of a persistent tier: the matching partitions are dropped
tier_purge(idx, app_id, shuffle_id) ==
  LET removed == {u \in UIds : purge_matches(u, app_id, shuffle_id)}
  IN [size |-> SumOver([u \in removed |-> SumLen(idx[u])], removed),
      idx |-> [u \in UIds |-> IF u \in removed THEN <<>> ELSE idx[u]]]

\* HdfsStore::purge: nothing without a client of the app; the client goes
\* with an app-level purge
HdfsStore_purge(idx, cl, app_id, shuffle_id) ==
  IF app_id \notin cl
  THEN [size |-> 0, idx |-> idx, clients |-> cl]
  ELSE LET t == tier_purge(idx, app_id, shuffle_id)
       IN [size |-> t.size, idx |-> t.idx,
           clients |-> IF shuffle_id = NoShuffle THEN cl \ {app_id} ELSE cl]

\* purge of the persistent store of one kind; an absent store is skipped
persistent_purge(kind, idx, cl, app_id, shuffle_id) ==
  IF kind = "hdfs" THEN HdfsStore_purge(idx, cl, app_id, shuffle_id)
  ELSE IF kind = "localfile"
       THEN LET t == tier_purge(idx, app_id, shuffle_id)
            IN [size |-> t.size, idx |-> t.idx, clients |-> cl]
       ELSE [size |-> 0, idx |-> idx, clients |-> cl]

\* the characters of the app ids
AppChars == [a \in Apps |-> IF a = "a1" THEN <<"a", "1">> ELSE <<"a", "2">>]

\* format!("{}", n) of a number that is not negative: its decimal digits
DigitChars == <<"0", "1", "2", "3", "4", "5", "6", "7", "8", "9">>
RECURSIVE Decimal(_)
Decimal(n) ==
  IF n < 10 THEN <<DigitChars[n + 1]>>
  ELSE Decimal(n \div 10) \o <<DigitChars[(n % 10) + 1]>>

\* HdfsStore::get_app_dir: format!("{}/", app_id)
get_app_dir(app_id) == AppChars[app_id] \o <<"/">>

\* a shuffle directory named without the closing separator
get_shuffle_dir_open(app_id, shuffle_id) ==
  AppChars[app_id] \o <<"/">> \o Decimal(shuffle_id)

\* HdfsStore::get_shuffle_dir: format!("{}/{}/", app_id, shuffle_id)
get_shuffle_dir(app_id, shuffle_id) ==
  AppChars[app_id] \o <<"/">> \o Decimal(shuffle_id) \o <<"/">>

\* HdfsStore::get_file_path_by_uid, the data file:
\* format!("{}/{}/{}-{}/{}.data", app_id, shuffle_id, p_id, p_id, worker_id)
get_file_path_by_uid(uid) ==
  AppChars[uid.app_id] \o <<"/">> \o Decimal(uid.shuffle_id) \o <<"/">>
    \o Decimal(uid.partition_id) \o <<"-">> \o Decimal(uid.partition_id)
    \o <<"/", "w", ".data">>

\* the directory a purge is about
purge_dir(app_id, shuffle_id) ==
  IF shuffle_id = NoShuffle THEN get_app_dir(app_id)
  ELSE get_shuffle_dir(app_id, shuffle_id)

\* entry.key().starts_with(dir.as_str())
starts_with(path, dir) == IsPrefix(dir, path)

\* HdfsStore::purge on the clients, the lock entries, the cached meta and the
\* remote files: without a client of the app it returns 0; else the client goes
\* with an app-level purge, the lock entries whose path starts with the
\* directory are removed with their cached meta, whose data_len are summed,
\* and the remote directory is deleted, whose error is returned with ?
HdfsStore_purge_files(fs, cl, app_id, shuffle_id, delete_ok) ==
  LET dir == purge_dir(app_id, shuffle_id)
      keys_to_delete ==
        {u \in FileUIds : fs[u].lock /\ starts_with(get_file_path_by_uid(u), dir)}
      removed_size == SumOver([u \in keys_to_delete |->
                                 IF fs[u].cached THEN fs[u].data_len ELSE 0],
                              keys_to_delete)
      dropped == [u \in FileUIds |->
                    IF u \in keys_to_delete
                    THEN [fs[u] EXCEPT !.lock = FALSE, !.cached = FALSE, !.data_len = 0]
                    ELSE fs[u]]
      deleted == [u \in FileUIds |->
                    IF starts_with(get_file_path_by_uid(u), dir)
                    THEN [dropped[u] EXCEPT !.exists = FALSE, !.data = <<>>,
                                            !.index = <<>>]
                    ELSE dropped[u]]
  IN IF app_id \notin cl
     THEN [ok |-> TRUE, val |-> 0, files |-> fs, clients |-> cl]
     ELSE [ok |-> delete_ok, val |-> IF delete_ok THEN removed_size ELSE 0,
           files |-> IF delete_ok THEN deleted ELSE dropped,
           clients |-> IF shuffle_id = NoShuffle THEN cl \ {app_id} ELSE cl]

\* the files and cached meta of a persistent store after its purge: those of
\* the matching partitions are gone; the hdfs store purges by path
files_purge(kind, fs, cl, app_id, shuffle_id) ==
  IF kind = "none" THEN fs
  ELSE IF kind = "hdfs"
       THEN HdfsStore_purge_files(fs, cl, app_id, shuffle_id, TRUE).files
       ELSE [u \in FileUIds |->
               IF purge_matches(u, app_id, shuffle_id) THEN NoFile ELSE fs[u]]

\* HybridStore::purge: hot, then warm, then cold
HybridPurge(app_id, shuffle_id) ==
  LET hot == MemoryStore_purge(state, budget, app_id, shuffle_id)
      warm == persistent_purge(config.warm_store, warm_idx, clients, app_id, shuffle_id)
      cold == persistent_purge(config.cold_store, cold_idx, warm.clients, app_id, shuffle_id)
  IN
  /\ state' = hot.state
  /\ budget' = hot.budget
  /\ appended' = [u \in UIds |-> IF purge_matches(u, app_id, shuffle_id)
                                 THEN <<>> ELSE appended[u]]
  /\ held' = IF /\ held.pc = "obtained" /\ ~held.detached
                /\ purge_matches(held.msg.uid, app_id, shuffle_id)
             THEN [held EXCEPT !.detached = TRUE, !.buf = state[held.msg.uid]]
             ELSE held
  /\ IF hot.ok
     THEN /\ warm_idx' = warm.idx
          /\ cold_idx' = cold.idx
          /\ clients' = cold.clients
          /\ files' = [warm |-> files_purge(config.warm_store, files.warm, clients,
                                            app_id, shuffle_id),
                       cold |-> files_purge(config.cold_store, files.cold, warm.clients,
                                            app_id, shuffle_id)]
          /\ ret' = [op |-> "purge", ok |-> TRUE, app_id |-> app_id,
                     shuffle_id |-> shuffle_id, hot |-> hot.used,
                     val |-> hot.used + warm.size + cold.size]
     ELSE /\ UNCHANGED tierVars
          /\ ret' = [op |-> "purge", ok |-> FALSE, app_id |-> app_id,
                     shuffle_id |-> shuffle_id, hot |-> hot.used, val |-> 0]
  /\ inserters' = [c \in Callers |->
                     IF /\ inserters[c].pc = "obtained" /\ ~inserters[c].detached
                        /\ purge_matches(inserters[c].uid, app_id, shuffle_id)
                     THEN [inserters[c] EXCEPT !.detached = TRUE,
                                               !.buf = state[inserters[c].uid]]
                     ELSE inserters[c]]
  /\ UNCHANGED <<ticket_budget, callback_on_store, writers, config, disks, memory_spill_lock,
                 ticketVars, now, spillVars, block_seq, reader>>

(***************************************************************************)
(* Memory reads                                                            *)
(***************************************************************************)
\* the segments MemoryStore::get builds from the blocks of buffer.get
RECURSIVE segments_of(_, _)
segments_of(blocks, offset) ==
  IF blocks = <<>> THEN <<>>
  ELSE <<[block_id |-> Head(blocks).block_id, offset |-> offset,
          length |-> Head(blocks).length,
          task_attempt_id |-> Head(blocks).task_attempt_id]>>
       \o segments_of(Tail(blocks), offset + Head(blocks).length)

\* a get that ignores the cursor and always reads from the beginning
MemoryStore_get_from_start(st, uid, last_block_id, max_size, filter) ==
  segments_of(buffer_get(get_buffer(st, uid), INVALID_BLOCK_ID, max_size, filter), 0)

\* MemoryStore::get with MEMORY_LAST_BLOCK_ID_AND_MAX_SIZE(last_block_id, max_size)
MemoryStore_get(st, uid, last_block_id, max_size, filter) ==
  segments_of(buffer_get(get_buffer(st, uid), last_block_id, max_size, filter), 0)

\* ReadingOptions of a read
ReadModes == {"MEMORY_LAST_BLOCK_ID_AND_MAX_SIZE", "FILE_OFFSET_AND_LEN"}

\* HdfsStore::get and HdfsStore::get_index
HdfsStore_get ==
  [ok |-> FALSE, err |-> "NOT_READ_HDFS_DATA_FROM_SERVER", data |-> <<>>]

\* get / get_index of a persistent store: the hdfs store refuses, the local
\* file store answers what its index lists, unwrap() of no store panics
persistent_get(kind, idx, uid) ==
  IF kind = "hdfs" THEN HdfsStore_get
  ELSE IF kind = "localfile" THEN [ok |-> TRUE, err |-> "", data |-> idx[uid]]
  ELSE [ok |-> FALSE, err |-> "panic", data |-> <<>>]

\* a read that asks the cold store when there is one
warm_store_get_cold_first(cfg, widx, cidx, uid) ==
  IF cfg.cold_store # "none"
  THEN persistent_get(cfg.cold_store, cidx, uid)
  ELSE persistent_get(cfg.warm_store, widx, uid)

\* self.warm_store.as_ref().unwrap().get(ctx) / .get_index(ctx)
warm_store_get(cfg, widx, cidx, uid) == persistent_get(cfg.warm_store, widx, uid)

\* HybridStore::get
HybridGet(uid, mode, max_size) ==
  LET in_memory == mode = "MEMORY_LAST_BLOCK_ID_AND_MAX_SIZE"
      w == warm_store_get(config, warm_idx, cold_idx, uid)
  IN
  /\ state' = IF in_memory THEN get_or_create_memory_buffer(state, uid) ELSE state
  /\ ret' = IF in_memory
            THEN [op |-> "hybrid_get", mode |-> mode, uid |-> uid, max_size |-> max_size,
                  ok |-> TRUE, err |-> "",
                  data |-> MemoryStore_get(state, uid, INVALID_BLOCK_ID, max_size, NoFilter)]
            ELSE [op |-> "hybrid_get", mode |-> mode, uid |-> uid, max_size |-> max_size,
                  ok |-> w.ok, err |-> w.err, data |-> w.data]
  /\ UNCHANGED <<budget, ticket_budget, callback_on_store, writers, config, disks, lockVars, held, ticketVars, now,
                 spillVars, tierVars, block_seq, appended, reader>>

\* HybridStore::get_index
HybridGetIndex(uid) ==
  LET w == warm_store_get(config, warm_idx, cold_idx, uid) IN
  /\ ret' = [op |-> "hybrid_get_index", uid |-> uid, ok |-> w.ok, err |-> w.err,
             data |-> w.data,
             index_data |-> IF w.ok THEN files.warm[uid].index ELSE <<>>]
  /\ UNCHANGED <<budget, ticket_budget, callback_on_store, writers, config, disks, lockVars, held, ticketVars, now,
                 state, spillVars, tierVars, block_seq, appended, reader>>

\* the local file store's get: length bytes of the data file from offset
LocalFileStore_get(f, offset, length) ==
  SubSeq(f.data, offset + 1,
         IF offset + length <= Len(f.data) THEN offset + length ELSE Len(f.data))

\* get of a persistent store with FILE_OFFSET_AND_LEN(offset, length)
persistent_get_file(kind, f, offset, length) ==
  IF kind = "hdfs" THEN HdfsStore_get
  ELSE IF kind = "localfile"
       THEN [ok |-> TRUE, err |-> "", data |-> LocalFileStore_get(f, offset, length)]
       ELSE [ok |-> FALSE, err |-> "panic", data |-> <<>>]

\* HybridStore::get with FILE_OFFSET_AND_LEN(offset, length): the bytes the warm
\* store reads
HybridGetFile(uid, offset, length) ==
  LET w == persistent_get_file(config.warm_store, files.warm[uid], offset, length) IN
  /\ ret' = [op |-> "hybrid_get_file", uid |-> uid, offset |-> offset,
             length |-> length, ok |-> w.ok, err |-> w.err, data |-> w.data]
  /\ UNCHANGED <<budget, ticket_budget, callback_on_store, writers, config, disks, lockVars, held, ticketVars, now,
                 state, spillVars, tierVars, block_seq, appended, reader>>

\* HdfsStore::get (index FALSE) and HdfsStore::get_index (index TRUE) of the
\* hdfs store the hybrid store holds
HdfsGet(uid, index) ==
  /\ "hdfs" \in {config.warm_store, config.cold_store}
  /\ ret' = [op |-> IF index THEN "hdfs_get_index" ELSE "hdfs_get", uid |-> uid,
             ok |-> HdfsStore_get.ok, err |-> HdfsStore_get.err, data |-> HdfsStore_get.data]
  /\ UNCHANGED <<budget, ticket_budget, callback_on_store, writers, config, disks, lockVars, held, ticketVars, now,
                 state, spillVars, tierVars, block_seq, appended, reader>>

\* a read of any partition with any cursor, limit and filter
MemGet(uid, last_block_id, max_size, filter) ==
  /\ state' = get_or_create_memory_buffer(state, uid)
  /\ ret' = [op |-> "get", uid |-> uid, last_block_id |-> last_block_id,
             max_size |-> max_size, filter |-> filter,
             segments |-> MemoryStore_get(state, uid, last_block_id, max_size, filter)]
  /\ UNCHANGED <<budget, ticket_budget, callback_on_store, writers, config, disks, lockVars, held, ticketVars, now, spillVars,
                 tierVars, block_seq, appended, reader>>

\* the cursor reader: each read passes the id of the last block it received
ReaderGet(max_size) ==
  LET segs == MemoryStore_get(state, ReaderUId, reader.last, max_size, NoFilter) IN
  /\ Len(reader.log) + Len(segs) <= MaxReadLog
  /\ segs # <<>>
  /\ state' = get_or_create_memory_buffer(state, ReaderUId)
  /\ reader' = [reader EXCEPT !.last = segs[Len(segs)].block_id,
                              !.log = @ \o Ids(segs)]
  /\ ret' = [op |-> "reader_get"]
  /\ UNCHANGED <<budget, ticket_budget, callback_on_store, writers, config, disks, lockVars, held, ticketVars, now, spillVars,
                 tierVars, block_seq, appended>>


(***************************************************************************)
(* Specifications                                                          *)
(***************************************************************************)
\* the blocks a client sends in one insert: fresh block ids, in order
NewBlocks(max_n, tids, lens) ==
  UNION {{[i \in 1..n |-> [block_id |-> block_seq + i,
                           task_attempt_id |-> shapes[i].task_attempt_id,
                           length |-> shapes[i].length]] :
            shapes \in [1..n -> [task_attempt_id : tids, length : lens]]} : n \in 1..max_n}

\* ctx.data_size: the sum of the block lengths, or a size that differs from it
InsertSizes(blocks) == {SumLen(blocks), SumLen(blocks) + 1}

\* the partition the accounting is followed for
AcctUIds == {ReaderUId}

\* budget, tickets and buffers under the operations of the store
Next ==
  \/ \E uid \in AcctUIds, size \in ReqSizes : MemRequireBuffer(uid, size)
  \/ \E t \in 1..MaxTickets : MemReleaseTicket(t)
  \/ \E uid \in AcctUIds : \E blocks \in NewBlocks(1, {0}, BlockLens) :
       HybridInsert(uid, blocks, SumLen(blocks))
  \/ \E msg \in bus : HandlerWrite(msg, TRUE, TRUE)
  \/ \E msg \in acked : HandlerRelease(msg)
  \/ \E app_id \in {"a1"}, shuffle_id \in {NoShuffle} :
       HybridPurge(app_id, shuffle_id)

Spec == Init /\ [][Next]_vars

\* tickets under the clock: reservations, releases, inserts and the reaper
NextTickets ==
  \/ \E uid \in AcctUIds, size \in ReqSizes : MemRequireBuffer(uid, size)
  \/ \E t \in 1..MaxTickets : MemReleaseTicket(t)
  \/ Tick
  \/ \E t \in 1..MaxTickets : ReapTicket(t)
  \/ \E uid \in AcctUIds : \E blocks \in NewBlocks(1, {0}, BlockLens) :
       HybridInsert(uid, blocks, SumLen(blocks))

SpecTickets == InitAny /\ [][NextTickets]_vars

\* inserts whose ctx.data_size is whatever the caller says
NextSizes ==
  \/ \E uid \in AcctUIds, size \in ReqSizes : MemRequireBuffer(uid, size)
  \/ \E uid \in AcctUIds : \E blocks \in NewBlocks(1, {0}, BlockLens) :
       \E size \in InsertSizes(blocks) : HybridInsert(uid, blocks, size)
  \/ \E msg \in bus : HandlerWrite(msg, TRUE, TRUE)
  \/ \E msg \in acked : HandlerRelease(msg)
  \/ \E app_id \in {"a1"} : HybridPurge(app_id, NoShuffle)

SpecSizes == Init /\ [][NextSizes]_vars


(***************************************************************************)
(* Properties of the budget, the tickets and the buffers                   *)
(***************************************************************************)
\* C1: in every reachable state the budget counters satisfy
\* 0 <= used <= used + allocated <= capacity
C1_BudgetInvariant ==
  /\ 0 <= budget.used
  /\ budget.used <= budget.used + budget.allocated
  /\ budget.used + budget.allocated <= budget.capacity

\* C2: require_buffer(size) succeeds iff used + allocated + size <= capacity;
\* a refused call returns the not-enough-memory error, records no ticket and
\* leaves the budget as it was
C2_RequireBuffer ==
  [][ret'.op = "require_buffer" =>
       /\ ret'.ok <=> (budget.used + budget.allocated + ret'.size <= budget.capacity)
       /\ ret'.ok => /\ budget' = [budget EXCEPT !.allocated = @ + ret'.size]
                     /\ ret'.ticket_id \notin DOMAIN tickets
                     /\ ret'.ticket_id \in DOMAIN tickets'
                     /\ tickets'[ret'.ticket_id].size = ret'.size
       /\ ~ret'.ok => /\ ret'.err = "NO_ENOUGH_MEMORY_TO_BE_ALLOCATED"
                      /\ tickets' = tickets
                      /\ budget' = budget]_vars

\* a reservation that fits the capacity is refused because of what is held
C2_Witness ==
  /\ ret.op = "require_buffer" /\ ~ret.ok
  /\ ret.size <= Capacity
  /\ budget.used > 0

\* C3: releasing the ticket of a reservation of n bytes returns n, removes the
\* ticket and decreases allocated by n
C3_ReleaseReturnsBytes ==
  [][ret'.op = "release_ticket" /\ ret'.ok =>
       /\ ret'.val = tickets[ret'.ticket_id].size
       /\ ret'.ticket_id \notin DOMAIN tickets'
       /\ budget'.allocated = budget.allocated - ret'.val]_vars

C5_TotalSize ==
  \A u \in DOMAIN state : state[u].total_size = SumLen(buffer_view(state[u]))

(***************************************************************************)
(* The spill pipeline: where a block is                                    *)
(***************************************************************************)
\* one reservation of the whole capacity
SpillReqSizes == {Capacity}

\* watermark spill, persistent write with unhealthy disks and failed writes,
\* retry, and release of the flight
NextSpill ==
  \/ \E uid \in AcctUIds, size \in SpillReqSizes : MemRequireBuffer(uid, size)
  \/ \E uid \in AcctUIds : \E blocks \in NewBlocks(1, {0}, BlockLens) :
       HybridInsert(uid, blocks, SumLen(blocks))
  \/ \E msg \in bus : \E warm_is_healthy, io_ok \in BOOLEAN :
       HandlerWrite(msg, warm_is_healthy, io_ok)
  \/ \E msg \in acked : HandlerRelease(msg)

SpecSpill == Init /\ [][NextSpill]_vars

\* how many times block id k occurs in a sequence of blocks
RECURSIVE Count(_, _)
Count(blocks, k) ==
  IF blocks = <<>> THEN 0
  ELSE (IF Head(blocks).block_id = k THEN 1 ELSE 0) + Count(Tail(blocks), k)

MemCount(u, k) == Count(buffer_view(get_buffer(state, u)), k)
PersistCount(u, k) == Count(warm_idx[u], k) + Count(cold_idx[u], k)

\* the flight of buffer u that holds block id k is the flight of message msg
ReleasePending(u, k) ==
  \E msg \in acked :
    /\ msg.uid = u
    /\ Count(msg.blocks, k) = 1
    /\ msg.flight_id \in DOMAIN get_buffer(state, u).flights
    /\ Count(get_buffer(state, u).flights[msg.flight_id], k) = 1

\* C6: every inserted block is in exactly one location, staging, a flight or
\* a persistent tier, at all times
C6_OneLocation ==
  \A u \in UIds : \A i \in 1..Len(appended[u]) :
    MemCount(u, appended[u][i]) + PersistCount(u, appended[u][i]) = 1

\* C6 as the code keeps it: a block is at most once in memory and at most once
\* persisted, never in neither, and in both only while the message that wrote
\* its flight waits for release_data_in_memory
C6_OneLocationUntilRelease ==
  \A u \in UIds : \A i \in 1..Len(appended[u]) :
    LET k == appended[u][i] IN
    /\ MemCount(u, k) <= 1
    /\ PersistCount(u, k) <= 1
    /\ MemCount(u, k) + PersistCount(u, k) >= 1
    /\ (MemCount(u, k) = 1 /\ PersistCount(u, k) = 1) => ReleasePending(u, k)

\* a retried spill reached the cold tier and its flight is still in memory,
\* while an earlier flight has been released
C6_Witness ==
  \E msg \in acked :
    /\ msg.retry_cnt >= 1
    /\ Count(cold_idx[msg.uid], msg.blocks[1].block_id) = 1
    /\ MemCount(msg.uid, msg.blocks[1].block_id) = 1
    /\ \E i \in 1..Len(appended[msg.uid]) :
         /\ MemCount(msg.uid, appended[msg.uid][i]) = 0
         /\ PersistCount(msg.uid, appended[msg.uid][i]) = 1

(***************************************************************************)
(* Reads by cursor                                                         *)
(***************************************************************************)
\* max_size of the reads: one block at a time, or several
ReadSizes == {1, 4}

\* a client follows one partition by cursor while it is written and spilled
NextRead ==
  \/ \E uid \in AcctUIds, size \in SpillReqSizes : MemRequireBuffer(uid, size)
  \/ \E uid \in AcctUIds : \E blocks \in NewBlocks(1, {0}, BlockLens) :
       HybridInsert(uid, blocks, SumLen(blocks))
  \/ \E msg \in bus : HandlerWrite(msg, TRUE, TRUE)
  \/ \E msg \in acked : HandlerRelease(msg)
  \/ \E max_size \in ReadSizes : ReaderGet(max_size)

SpecRead == Init /\ [][NextRead]_vars

\* every block appended to the reader's partition is still in its buffer
NothingCleared ==
  \A i \in 1..Len(appended[ReaderUId]) : MemCount(ReaderUId, appended[ReaderUId][i]) = 1

\* C7: the blocks a cursor reader has received are the appended blocks in
\* append order, each once and with no gap, also when flights are spilled and
\* cleared between the reads
C7_CursorReads == IsPrefix(reader.log, appended[ReaderUId])

\* C7 as the code keeps it: the reader receives the appended blocks in append
\* order, each once and with no gap, as long as no flight of the partition
\* has been cleared; spills between the reads do not disturb the cursor
C7_CursorReadsUntilClear == NothingCleared => IsPrefix(reader.log, appended[ReaderUId])

\* the reader has read everything over at least two flights and the staging
C7_Witness ==
  /\ NothingCleared
  /\ Cardinality(DOMAIN get_buffer(state, ReaderUId).flights) >= 2
  /\ get_buffer(state, ReaderUId).staging # <<>>
  /\ reader.log = appended[ReaderUId]
  /\ Len(reader.log) >= 3

(***************************************************************************)
(* One memory read: limit, cursor and filter                               *)
(***************************************************************************)
\* last_block_id of a read: -1, the id of the first block, or an id never given out
GetCursors == {INVALID_BLOCK_ID, 1, MaxBlocks + 1}
\* max_size of a read
GetSizes == {0, 2}
\* serialized_expected_task_ids_bitmap of a read
GetFilters == {NoFilter} \cup {SomeFilter({t}) : t \in TaskIds}

\* a partition is written by two task attempts, its staging becomes flights,
\* and it is read with any cursor, limit and filter
NextGet ==
  \/ \E uid \in AcctUIds, size \in SpillReqSizes : MemRequireBuffer(uid, size)
  \/ \E uid \in AcctUIds : \E blocks \in NewBlocks(1, TaskIds, BlockLens) :
       HybridInsert(uid, blocks, SumLen(blocks))
  \/ \E uid \in AcctUIds, last_block_id \in GetCursors, max_size \in GetSizes,
        filter \in GetFilters : MemGet(uid, last_block_id, max_size, filter)

SpecGet == Init /\ [][NextGet]_vars

\* the view of the buffer the last read was served from
GetView == buffer_view(get_buffer(state, ret.uid))

RECURSIVE SumSegments(_)
SumSegments(segs) ==
  IF segs = <<>> THEN 0 ELSE Head(segs).length + SumSegments(Tail(segs))

\* C8: the lengths of the blocks a memory get returns sum to at most max_size
C8_WithinMaxSize ==
  ret.op = "get" => SumSegments(ret.segments) <= ret.max_size

\* the blocks the last read had after its cursor
GetAfter == blocks_after(GetView, ret.last_block_id)

\* C9: a get whose last_block_id is not the id of any block in the buffer
\* returns what the same get returns with last_block_id = -1
C9_NonexistentCursor ==
  (ret.op = "get" /\ \A i \in 1..Len(GetView) : GetView[i].block_id # ret.last_block_id)
    => ret.segments = MemoryStore_get(state, ret.uid, INVALID_BLOCK_ID, ret.max_size,
                                      ret.filter)

\* a read with an id no block has returned the first blocks of a buffer that
\* holds flights
C9_Witness ==
  /\ ret.op = "get"
  /\ ret.last_block_id = MaxBlocks + 1
  /\ get_buffer(state, ret.uid).flights # <<>>
  /\ Len(GetView) >= 3
  /\ Len(ret.segments) = 2
  /\ ret.segments[1].block_id = GetView[1].block_id

\* the blocks of a sequence the filter accepts
Accepted(blocks, filter) ==
  LET InFilter(b) == b.task_attempt_id \in filter.ids IN SelectSeq(blocks, InFilter)

\* C10: with a task_attempt_id filter every returned block is of a task in
\* the filter; the returned blocks are, in append order after the cursor, the
\* accepted blocks up to the one that reaches max_size, the rejected blocks
\* counting for nothing
C10_Filter ==
  (ret.op = "get" /\ ret.filter.some) =>
    LET kept == Accepted(GetAfter, ret.filter)
        n == Len(ret.segments)
    IN /\ \A i \in 1..n : ret.segments[i].task_attempt_id \in ret.filter.ids
       /\ n <= Len(kept)
       /\ Ids(ret.segments) = Ids(SubSeq(kept, 1, n))
       /\ \A j \in 0..(n - 1) : SumLen(SubSeq(kept, 1, j)) < ret.max_size
       /\ n < Len(kept) => SumLen(SubSeq(kept, 1, n)) >= ret.max_size

\* a filtered read skipped a block as long as the limit and still returned the
\* two accepted blocks behind it
C10_Witness ==
  /\ ret.op = "get" /\ ret.filter.some
  /\ Len(GetAfter) >= 3
  /\ GetAfter[1].task_attempt_id \notin ret.filter.ids
  /\ GetAfter[1].length >= ret.max_size
  /\ Len(ret.segments) = 2

(***************************************************************************)
(* Tier selection and retry                                                *)
(***************************************************************************)
\* the spill pipeline of a worker of any storage type, with unhealthy disks
\* and failing writes; the flights stay in memory
NextTier ==
  \/ \E uid \in AcctUIds, size \in SpillReqSizes : MemRequireBuffer(uid, size)
  \/ \E uid \in AcctUIds : \E blocks \in NewBlocks(1, {0}, BlockLens) :
       HybridInsert(uid, blocks, SumLen(blocks))
  \/ \E msg \in bus : \E warm_is_healthy \in WarmIsHealthy(config), io_ok \in BOOLEAN :
       HandlerWrite(msg, warm_is_healthy, io_ok)

SpecTier == InitConfig /\ [][NextTier]_vars

\* C11: the tier of a write is warm iff the message is a first attempt, warm
\* is healthy and the size is within the threshold (no threshold: always
\* within); otherwise it is cold, which is warm itself without a second tier
C11_TierChoice ==
  (ret.op = "spill" /\ ret.attempted) =>
    LET within == ~config.threshold.some \/ ret.size <= config.threshold.v
        to_warm == ret.retry_cnt = 0 /\ ret.warm_is_healthy /\ within
    IN /\ ret.tier \in {"warm", "cold"}
       /\ ret.tier = "cold" <=> (~to_warm /\ config.cold_store # "none")

\* a first attempt went to cold because warm was unhealthy, the size being
\* within the threshold
C11_Witness ==
  /\ ret.op = "spill" /\ ret.attempted
  /\ ret.retry_cnt = 0 /\ ~ret.warm_is_healthy
  /\ config.threshold.some /\ ret.size <= config.threshold.v
  /\ ret.tier = "cold"

\* a purge of one shuffle while the handler completes spills of two shuffles
RaceUIds == {u \in UIds : u.app_id = "a1"}

NextRace ==
  \/ \E uid \in AcctUIds, size \in SpillReqSizes : MemRequireBuffer(uid, size)
  \/ \E uid \in RaceUIds : \E blocks \in NewBlocks(1, {0}, BlockLens) :
       HybridInsert(uid, blocks, SumLen(blocks))
  \/ \E msg \in bus : HandlerWrite(msg, TRUE, TRUE)
  \/ \E msg \in acked : HandlerObtain(msg)
  \/ HandlerFinish
  \/ HybridPurge("a1", 0)

SpecRace == Init /\ [][NextRace]_vars

\* the spill handler under every outcome of the health check and of the write,
\* with blocks of one length
RetryBlockLens == {3}

NextRetry ==
  \/ \E uid \in AcctUIds, size \in SpillReqSizes : MemRequireBuffer(uid, size)
  \/ \E uid \in AcctUIds : \E blocks \in NewBlocks(1, {0}, RetryBlockLens) :
       HybridInsert(uid, blocks, SumLen(blocks))
  \/ \E msg \in bus : \E warm_is_healthy, io_ok \in BOOLEAN :
       HandlerWrite(msg, warm_is_healthy, io_ok)
  \/ \E msg \in acked : HandlerRelease(msg)

SpecRetry == Init /\ [][NextRetry]_vars

\* the messages of flight fid of partition u in a set of messages
MessagesOf(msgs, u, fid) == {m \in msgs : m.uid = u /\ m.flight_id = fid}

\* the flights of partition u
FlightsOf(st, u) == get_buffer(st, u).flights

C13_ReleaseExact ==
  [][(ret'.op = "release_data_in_memory" /\ ret'.uid \in DOMAIN state
        /\ ret'.flight_id \in DOMAIN state[ret'.uid].flights) =>
       LET old == state[ret'.uid]
           new == FlightsOf(state', ret'.uid)
           L   == ret'.size
       IN /\ DOMAIN new = (DOMAIN old.flights) \ {ret'.flight_id}
          /\ \A fid \in DOMAIN new : new[fid] = old.flights[fid]
          /\ get_buffer(state', ret'.uid).staging = old.staging
          /\ get_buffer(state', ret'.uid).total_size = old.total_size - L
          /\ budget'.used = budget.used - L
          /\ in_flush_buffer_size' = in_flush_buffer_size - L]_vars

\* C14: the bytes of a flight are subtracted from used once: a completing
\* spill subtracts only for a flight that is still in its buffer, never for one
\* whose bytes a purge has subtracted already
C14_AtMostOnce ==
  [][(ret'.op = "release_data_in_memory" /\ budget'.used # budget.used) =>
       /\ ret'.uid \in DOMAIN state
       /\ ret'.flight_id \in DOMAIN state[ret'.uid].flights
       /\ state[ret'.uid].flights[ret'.flight_id] = ret'.blocks]_vars

\* purges of an app or of one shuffle over the buffers of every partition
PurgeShuffles == {NoShuffle, 0}

NextPurge ==
  \/ \E uid \in AcctUIds, size \in SpillReqSizes : MemRequireBuffer(uid, size)
  \/ \E uid \in UIds : \E blocks \in NewBlocks(1, {0}, BlockLens) :
       HybridInsert(uid, blocks, SumLen(blocks))
  \/ \E app_id \in Apps, shuffle_id \in PurgeShuffles : HybridPurge(app_id, shuffle_id)

SpecPurge == Init /\ [][NextPurge]_vars

\* the partitions in memory a purge of (app_id, shuffle_id) is about
Purged(st, app_id, shuffle_id) == {u \in DOMAIN st : purge_matches(u, app_id, shuffle_id)}

\* C15: a purge removes exactly the matching buffers, returns the sum S of
\* their total_size and decreases used by S; the other buffers and the
\* capacity are unchanged, and a read of a purged partition returns no block
C15_PurgeFrame ==
  [][ret'.op = "purge" =>
       LET removed == Purged(state, ret'.app_id, ret'.shuffle_id)
           S == SumOver([u \in removed |-> state[u].total_size], removed)
       IN /\ DOMAIN state' = (DOMAIN state) \ removed
          /\ \A u \in DOMAIN state' : state'[u] = state[u]
          /\ ret'.ok /\ ret'.hot = S
          /\ budget'.used = budget.used - S
          /\ budget'.capacity = budget.capacity
          /\ \A u \in removed :
               MemoryStore_get(state', u, INVALID_BLOCK_ID, Capacity, NoFilter) = <<>>]_vars

\* the tickets of an app
TicketsOf(tk, app_id) == {t \in DOMAIN tk : tk[t].app_id = app_id}

\* C16: after a purge of an app has completed no ticket of the app is left,
\* and allocated no longer holds bytes when the app's tickets were the only ones
C16_PurgeReleasesTickets ==
  (ret.op = "purge" /\ ret.ok /\ ret.shuffle_id = NoShuffle) =>
     /\ TicketsOf(tickets, ret.app_id) = {}
     /\ (DOMAIN tickets = {} => budget.allocated = 0)

\* what a purge can change: the memory store, its budget and the tiers
purgeVars == <<state, budget, in_flush_buffer_size, tickets, warm_idx, cold_idx, clients>>

\* C17: a purge of an app that directly follows a purge of the same app
\* returns 0 and changes no state of the memory store or of the tiers
C17_PurgeIdempotent ==
  [][(/\ ret.op = "purge" /\ ret'.op = "purge"
      /\ ret.shuffle_id = NoShuffle /\ ret'.shuffle_id = NoShuffle
      /\ ret.app_id = ret'.app_id) =>
       /\ ret'.ok /\ ret'.val = 0
       /\ UNCHANGED purgeVars]_vars

\* tickets that are never consumed: reservations, releases, the clock and the
\* reaper, which scans every ten seconds for as long as the store lives
NextReap ==
  \/ \E uid \in AcctUIds, size \in ReqSizes : MemRequireBuffer(uid, size)
  \/ \E t \in 1..MaxTickets : MemReleaseTicket(t)
  \/ Tick
  \/ \E t \in 1..MaxTickets : ReapTicket(t)

SpecReap ==
  /\ InitAny /\ [][NextReap]_vars
  /\ WF_vars(Tick)
  /\ \A t \in 1..MaxTickets : WF_vars(ReapTicket(t))

\* ticket t is live and its time to live has passed
Expired(t) == t \in DOMAIN tickets /\ now - tickets[t].created_at >= TicketTimeoutSec

\* C18: a ticket whose time to live has passed is eventually removed by the
\* reaper, and the step that removes it decreases the allocated of the store's
\* budget by the size of the ticket
C18_TicketExpires ==
  /\ \A t \in 1..MaxTickets : Expired(t) ~> (t \notin DOMAIN tickets)
  /\ [][ret'.op = "reap" =>
          /\ ret'.ticket_id \in DOMAIN tickets
          /\ ret'.ticket_id \notin DOMAIN tickets'
          /\ budget'.allocated = budget.allocated - tickets[ret'.ticket_id].size]_vars

\* the hybrid store of every storage type under writes and health checks
NextHealth ==
  \/ \E uid \in AcctUIds, size \in SpillReqSizes : MemRequireBuffer(uid, size)
  \/ \E uid \in AcctUIds : \E blocks \in NewBlocks(1, {0}, BlockLens) :
       HybridInsert(uid, blocks, SumLen(blocks))
  \/ \E hot \in HealthOutcomes("memory"), warm \in HealthOutcomes(config.warm_store),
        cold \in HealthOutcomes(config.cold_store) : HybridIsHealthy(hot, warm, cold)

SpecHealth == InitConfig /\ [][NextHealth]_vars

\* C19 as stated: the hybrid store is healthy iff hot is healthy and warm or
\* cold is a healthy tier
C19_HealthyAggregate ==
  ret.op = "is_healthy" =>
    /\ ret.ok
    /\ ret.val <=> (ret.hot = "true" /\ (ret.warm = "true" \/ ret.cold = "true"))

\* C19: the hybrid store is healthy iff hot is healthy and warm or cold is
\* healthy, where a tier that is not configured counts as healthy and a tier
\* whose check errs counts as unhealthy
C19_HealthyAggregateAbsent ==
  ret.op = "is_healthy" =>
    /\ ret.ok
    /\ ret.val <=> (ret.hot = "true" /\ (ret.warm \in {"true", "absent"}
                                          \/ ret.cold \in {"true", "absent"}))

\* the only persistent tier fails its check and the hybrid store reports healthy
C19_Witness ==
  /\ ret.op = "is_healthy" /\ ret.ok /\ ret.val
  /\ ret.warm = "error" /\ ret.cold = "absent"
  /\ config.warm_store = "localfile"

\* reads of the hybrid store of every storage type, over data in both tiers
NextRoute ==
  \/ \E uid \in AcctUIds, size \in SpillReqSizes : MemRequireBuffer(uid, size)
  \/ \E uid \in AcctUIds : \E blocks \in NewBlocks(1, {0}, BlockLens) :
       HybridInsert(uid, blocks, SumLen(blocks))
  \/ \E msg \in bus : HandlerWrite(msg, TRUE, TRUE)
  \/ \E uid \in AcctUIds, mode \in ReadModes : HybridGet(uid, mode, Capacity)
  \/ \E uid \in AcctUIds : HybridGetIndex(uid)
  \/ \E uid \in AcctUIds, index \in BOOLEAN : HdfsGet(uid, index)

SpecRoute == InitConfig /\ [][NextRoute]_vars

\* the variables of the stores, all but the record of the last answer
storeVars == <<budget, ticket_budget, ticketVars, state, spillVars, tierVars, appended>>

\* C20: a memory-mode read is answered by the hot store; every other read and
\* every index read is answered by the warm store, never by the cold one; the
\* hdfs store answers get and get_index with NOT_READ_HDFS_DATA_FROM_SERVER,
\* also when it is the warm store, and changes no state
C20_NeverReadsCold ==
  [][/\ (ret'.op = "hybrid_get" /\ ret'.mode = "MEMORY_LAST_BLOCK_ID_AND_MAX_SIZE") =>
          /\ ret'.ok
          /\ ret'.data = MemoryStore_get(state, ret'.uid, INVALID_BLOCK_ID,
                                         ret'.max_size, NoFilter)
          /\ UNCHANGED tierVars
     /\ (\/ ret'.op = "hybrid_get" /\ ret'.mode # "MEMORY_LAST_BLOCK_ID_AND_MAX_SIZE"
         \/ ret'.op = "hybrid_get_index") =>
          /\ config.warm_store = "localfile" => ret'.ok /\ ret'.data = warm_idx[ret'.uid]
          /\ config.warm_store = "hdfs" =>
               ~ret'.ok /\ ret'.err = "NOT_READ_HDFS_DATA_FROM_SERVER"
          /\ config.warm_store = "none" => ~ret'.ok
          /\ UNCHANGED storeVars
     /\ ret'.op \in {"hdfs_get", "hdfs_get_index"} =>
          /\ ~ret'.ok /\ ret'.err = "NOT_READ_HDFS_DATA_FROM_SERVER"
          /\ UNCHANGED storeVars]_vars

\* a file read of a partition with data in both tiers is answered with the
\* warm tier's data
C20_Witness ==
  /\ ret.op = "hybrid_get" /\ ret.mode = "FILE_OFFSET_AND_LEN" /\ ret.ok
  /\ warm_idx[ret.uid] # <<>> /\ cold_idx[ret.uid] # <<>>
  /\ ret.data = warm_idx[ret.uid]
  /\ ret.data # cold_idx[ret.uid]

(***************************************************************************)
(* LocalDiskDelegator: the health flags of a disk and its checker loop      *)
(***************************************************************************)
\* config.disk_high_watermark and config.disk_low_watermark, in percent
DiskHighWatermarkPct == 80
DiskLowWatermarkPct == 70

\* what get_disk_capacity and get_disk_available can do in one capacity check
CapacityOutcomes == {"ok", "capacity_err", "available_err"}
\* with_capacity and with_available set: both values are read from the
\* atomics, which cannot fail
CapacityOutcomesOfRefs == {"ok"}
\* what the delete, the write and the read of the canary file can do
WriteReadOutcomes == {"ok", "mismatch", "delete_err", "write_err", "read_err"}

mark_healthy(dk) == [dk EXCEPT !.is_healthy = TRUE]
mark_unhealthy(dk) == [dk EXCEPT !.is_healthy = FALSE]
mark_corrupted(dk) == [dk EXCEPT !.is_corrupted = TRUE]

\* used_ratio > high_watermark, with used = capacity - available
above_high_never(dk) == FALSE
above_high(dk) ==
  (DiskCapacity - dk.available) * 100 > DiskHighWatermarkPct * DiskCapacity

\* used_ratio < low_watermark
below_low(dk) ==
  (DiskCapacity - dk.available) * 100 < DiskLowWatermarkPct * DiskCapacity

\* capacity_check: an error of either stat call returns before the flags are
\* looked at; is_healthy is read once and decides which of the two moves can
\* happen
capacity_check_no_hysteresis(dk, outcome) ==
  IF outcome # "ok" THEN [disk |-> dk, ok |-> FALSE]
  ELSE [disk |-> IF above_high(dk) THEN mark_unhealthy(dk) ELSE mark_healthy(dk),
        ok |-> TRUE]
capacity_check(dk, outcome) ==
  IF outcome # "ok" THEN [disk |-> dk, ok |-> FALSE]
  ELSE LET healthy_stat == dk.is_healthy
           d1 == IF healthy_stat /\ above_high(dk) THEN mark_unhealthy(dk) ELSE dk
           d2 == IF ~healthy_stat /\ below_low(dk) THEN mark_healthy(d1) ELSE d1
       IN [disk |-> d2, ok |-> TRUE]

\* write_read_check: delete, write and read return their error with ?; bytes
\* that differ from the written ones mark the disk corrupted and return Ok
write_read_check_ignore_mismatch(dk, outcome) ==
  IF outcome \in {"delete_err", "write_err", "read_err"}
  THEN [disk |-> dk, ok |-> FALSE]
  ELSE [disk |-> dk, ok |-> TRUE]
write_read_check(dk, outcome) ==
  IF outcome \in {"delete_err", "write_err", "read_err"}
  THEN [disk |-> dk, ok |-> FALSE]
  ELSE IF outcome = "mismatch" THEN [disk |-> mark_corrupted(dk), ok |-> TRUE]
  ELSE [disk |-> dk, ok |-> TRUE]

\* schedule_check: `if self.is_corrupted()? { continue; }`
skip_check_never(dk) == FALSE
skip_check(dk) == dk.is_corrupted

\* the file system's free space of a disk root changes (data written or
\* deleted; the test stores into the atomic given to with_available)
DiskSetAvailable(d, available) ==
  /\ disks[d].available # available
  /\ disks' = [disks EXCEPT ![d].available = available]
  /\ ret' = [op |-> "set_available", disk |-> d]
  /\ UNCHANGED <<budget, ticket_budget, callback_on_store, writers, config, lockVars, held, ticketVars,
                 now, state, spillVars, tierVars, block_seq, appended, reader>>

\* one iteration of the loop of schedule_check for disk d, after its sleep:
\* skipped for a corrupted disk; else the capacity check, whose error is only
\* logged, and then the write+read check, whose error marks the disk corrupted
ScheduleCheck(d, capacity_outcome, write_read_outcome) ==
  LET dk == disks[d]
      c == capacity_check(dk, capacity_outcome)
      w == write_read_check(c.disk, write_read_outcome)
      after == IF w.ok THEN w.disk ELSE mark_corrupted(w.disk)
  IN /\ disks' = [disks EXCEPT ![d] = IF skip_check(dk) THEN dk ELSE after]
     /\ ret' = IF skip_check(dk)
               THEN [op |-> "schedule_check", disk |-> d, skipped |-> TRUE]
               ELSE [op |-> "schedule_check", disk |-> d, skipped |-> FALSE,
                     before |-> dk, capacity_outcome |-> capacity_outcome,
                     after_capacity |-> c.disk,
                     write_read_outcome |-> write_read_outcome]
     /\ UNCHANGED <<budget, ticket_budget, callback_on_store, writers, config, lockVars, held, ticketVars,
                    now, state, spillVars, tierVars, block_seq, appended, reader>>

\* the disks of a worker: free space changes, the checker loops run
NextDisk ==
  \/ \E d \in Disks, a \in 0..DiskCapacity : DiskSetAvailable(d, a)
  \/ \E d \in Disks, co \in CapacityOutcomes, wo \in WriteReadOutcomes :
       ScheduleCheck(d, co, wo)

SpecDisk == Init /\ [][NextDisk]_vars

\* C21: a disk starts healthy and not corrupted; once is_corrupted is true it
\* stays true in every later state, every later iteration of the checker loop
\* of that disk is skipped, and neither flag of that disk changes again
C21_CorruptedSticky ==
  /\ \A d \in Disks : disks[d].is_healthy /\ ~disks[d].is_corrupted
  /\ [][\A d \in Disks :
          disks[d].is_corrupted =>
            /\ disks'[d].is_corrupted
            /\ disks'[d].is_healthy = disks[d].is_healthy
            /\ (ret'.op = "schedule_check" /\ ret'.disk = d) => ret'.skipped]_vars

\* a corrupted disk's check came due and was skipped, while the disk is full
\* and still marked healthy
C21_Witness ==
  /\ ret.op = "schedule_check" /\ ret.skipped
  /\ disks[ret.disk].is_corrupted
  /\ disks[ret.disk].is_healthy
  /\ above_high(disks[ret.disk])

\* C22: is_corrupted of a disk turns true exactly in an iteration of its
\* checker loop whose write+read check fails: a canary mismatch or an I/O
\* error of the delete, the write or the read; a failed capacity check leaves
\* both flags as they were and does not corrupt the disk
C22_CorruptedByWriteRead ==
  [][\A d \in Disks :
       LET checked == /\ ret'.op = "schedule_check" /\ ret'.disk = d
                      /\ ~ret'.skipped
       IN /\ (~disks[d].is_corrupted /\ disks'[d].is_corrupted) => checked
          /\ checked =>
               /\ disks'[d].is_corrupted <=> ret'.write_read_outcome # "ok"
               /\ ret'.capacity_outcome # "ok" =>
                    /\ ret'.after_capacity = disks[d]
                    /\ disks'[d].is_healthy = disks[d].is_healthy]_vars

\* a full disk whose stat call failed and whose canary read failed: it is
\* corrupted by the read and still marked healthy
C22_Witness ==
  /\ ret.op = "schedule_check" /\ ~ret.skipped
  /\ ret.capacity_outcome = "available_err"
  /\ ret.write_read_outcome = "read_err"
  /\ above_high(ret.before) /\ ret.before.is_healthy
  /\ disks[ret.disk].is_corrupted /\ disks[ret.disk].is_healthy

\* used / capacity of a disk, in percent of percent: compared with a watermark
\* in percent times the capacity
UsedTimes100(dk) == (DiskCapacity - dk.available) * 100

\* C23: is_healthy of a disk changes only in a capacity check of its checker
\* loop, and only by hysteresis: true -> false only with
\* used/capacity > high_watermark, false -> true only with
\* used/capacity < low_watermark, no change with
\* low_watermark <= used/capacity <= high_watermark; the flag the check leaves
\* is the one the iteration ends with
C23_Hysteresis ==
  [][\A d \in Disks :
       LET checked == /\ ret'.op = "schedule_check" /\ ret'.disk = d
                      /\ ~ret'.skipped /\ ret'.capacity_outcome = "ok"
           used == UsedTimes100(disks[d])
           high == DiskHighWatermarkPct * DiskCapacity
           low == DiskLowWatermarkPct * DiskCapacity
       IN /\ disks'[d].is_healthy # disks[d].is_healthy => checked
          /\ checked =>
               /\ ret'.after_capacity.is_healthy = disks'[d].is_healthy
               /\ (disks[d].is_healthy /\ ~disks'[d].is_healthy) => used > high
               /\ (~disks[d].is_healthy /\ disks'[d].is_healthy) => used < low
               /\ (low <= used /\ used <= high) =>
                    disks'[d].is_healthy = disks[d].is_healthy]_vars

\* an unhealthy disk whose usage fell between the watermarks was checked and
\* stays unhealthy
C23_Witness ==
  /\ ret.op = "schedule_check" /\ ~ret.skipped /\ ret.capacity_outcome = "ok"
  /\ ~ret.before.is_healthy
  /\ UsedTimes100(ret.before) >= DiskLowWatermarkPct * DiskCapacity
  /\ UsedTimes100(ret.before) <= DiskHighWatermarkPct * DiskCapacity
  /\ ~disks[ret.disk].is_healthy /\ ~disks[ret.disk].is_corrupted

\* the disks of test_capacity_check: capacity and available are read from the
\* atomics given to with_capacity and with_available, so the stat calls of the
\* capacity check cannot fail; the canary I/O still can
NextDiskLive ==
  \/ \E d \in Disks, a \in 0..DiskCapacity : DiskSetAvailable(d, a)
  \/ \E d \in Disks, co \in CapacityOutcomesOfRefs, wo \in WriteReadOutcomes :
       ScheduleCheck(d, co, wo)

\* the checker task of every disk is spawned by LocalDiskDelegator::new and
\* its loop never ends: after each sleep the next iteration runs
SpecDiskLive ==
  /\ Init
  /\ [][NextDiskLive]_vars
  /\ \A d \in Disks :
       WF_vars(\E wo \in WriteReadOutcomes : ScheduleCheck(d, "ok", wo))

\* disk d is not corrupted and its usage is above the high watermark
StaysAbove(d) ==
  /\ ~disks[d].is_corrupted
  /\ (DiskCapacity - disks[d].available) * 100 > DiskHighWatermarkPct * DiskCapacity

\* disk d is not corrupted and its usage is below the low watermark
StaysBelow(d) ==
  /\ ~disks[d].is_corrupted
  /\ (DiskCapacity - disks[d].available) * 100 < DiskLowWatermarkPct * DiskCapacity

ReportsHealthy(d) == disks[d].is_healthy

ReadOffsets == 0..(MaxBlocks * SetMax(BlockLens))

\* writes, the spill pipeline with failing writes and the release, and reads
\* of memory, of the index and, at the offset and length of an index record,
\* of the data file
NextRoundTrip ==
  \/ \E uid \in AcctUIds, size \in SpillReqSizes : MemRequireBuffer(uid, size)
  \/ \E uid \in AcctUIds : \E blocks \in NewBlocks(1, {0}, BlockLens) :
       HybridInsert(uid, blocks, SumLen(blocks))
  \/ \E msg \in bus, io_ok \in BOOLEAN : HandlerWrite(msg, TRUE, io_ok)
  \/ \E msg \in acked : HandlerRelease(msg)
  \/ \E uid \in AcctUIds : HybridGet(uid, "MEMORY_LAST_BLOCK_ID_AND_MAX_SIZE", Capacity)
  \/ \E uid \in AcctUIds : HybridGetIndex(uid)
  \/ \E uid \in AcctUIds, offset \in ReadOffsets, length \in BlockLens :
       /\ \E i \in 1..Len(files.warm[uid].index) :
            /\ files.warm[uid].index[i].offset = offset
            /\ files.warm[uid].index[i].length = length
       /\ HybridGetFile(uid, offset, length)

\* the store of tests::get_data_from_localfile: MEMORY_LOCALFILE
InitLocalfile == InitStore(FALSE, StoreConfig(TRUE, FALSE, NoThreshold))

SpecRoundTrip == InitLocalfile /\ [][NextRoundTrip]_vars

\* every block appended to the partition is listed by the warm index and no
\* flight of the partition is on its way
SpilledToWarm(uid) ==
  /\ appended[uid] # <<>>
  /\ [i \in 1..Len(files.warm[uid].index) |-> files.warm[uid].index[i].block_id]
       = appended[uid]
  /\ \A msg \in bus \cup acked : msg.uid # uid

try_lock_always(lock) == TRUE
\* self.memory_spill_lock.try_lock(): Ok when nobody holds the lock
try_lock(lock) == lock = Unlocked

\* HybridStore::insert of caller c up to the return of hot_store.insert; a
\* memory-only store returns here
InsertHot(c, uid, blocks, size) ==
  LET ins == MemoryStore_insert(state, budget, uid, blocks, size) IN
  /\ inserters[c].pc = "idle"
  /\ block_seq + Len(blocks) <= MaxBlocks
  /\ \A i \in 1..Len(blocks) : blocks[i].block_id = block_seq + i
  /\ state' = ins.state
  /\ budget' = ins.budget
  /\ block_seq' = block_seq + Len(blocks)
  /\ appended' = [appended EXCEPT ![uid] = @ \o Ids(blocks)]
  /\ IF is_memory_only(config)
     THEN /\ ret' = [op |-> "insert", ok |-> ins.ok, caller |-> c]
          /\ UNCHANGED inserters
     ELSE /\ ret' = [op |-> "hot_insert", ok |-> ins.ok, caller |-> c]
          /\ inserters' = [inserters EXCEPT ![c] = [pc |-> "inserted", result |-> ins.ok]]
  /\ UNCHANGED <<ticket_budget, callback_on_store, writers, config, disks, memory_spill_lock, held,
                 ticketVars, now, spillVars, tierVars, reader>>

\* caller c at `if let Ok(_) = self.memory_spill_lock.try_lock()`: without the
\* lock it returns the result of the hot store at once; with it, it returns
\* when the usage is not above the high watermark, and else picks the buffers,
\* spills and publishes each, and is then inside watermark_spill still
\* holding the lock
InsertTryLock(c) ==
  /\ inserters[c].pc = "inserted"
  /\ IF ~try_lock(memory_spill_lock)
     THEN /\ inserters' = [inserters EXCEPT ![c] = NotInserting]
          /\ ret' = [op |-> "insert", ok |-> inserters[c].result, caller |-> c,
                     locked |-> FALSE, holder |-> memory_spill_lock]
          /\ UNCHANGED <<memory_spill_lock, state, bus>>
     ELSE IF ~over_high_watermark(budget, in_flush_buffer_size)
          THEN /\ inserters' = [inserters EXCEPT ![c] = NotInserting]
               /\ ret' = [op |-> "insert", ok |-> inserters[c].result, caller |-> c,
                          locked |-> TRUE, holder |-> memory_spill_lock]
               /\ UNCHANGED <<memory_spill_lock, state, bus>>
          ELSE \E pick_order \in DescendingOrders(state) :
                 \E iter_order \in OrdersOf(spill_buffers(state, budget, pick_order)) :
                   LET w == watermark_spill(state, budget, bus, pick_order, iter_order)
                   IN /\ state' = w.state
                      /\ bus' = w.bus
                      /\ memory_spill_lock' = c
                      /\ inserters' = [inserters EXCEPT ![c] =
                                         [pc |-> "spilling", result |-> @.result,
                                          flushed_size |-> w.flushed_size]]
                      /\ ret' = [op |-> "watermark_spill", caller |-> c,
                                 holder |-> memory_spill_lock]
  /\ UNCHANGED <<budget, ticket_budget, callback_on_store, writers, config, disks, held, ticketVars,
                 now, in_flush_buffer_size, acked, tierVars, block_seq, appended, reader>>

\* caller c at the end of watermark_spill: inc_inflight(flushed_size); the
\* guard of the lock is dropped and insert returns the result of the hot store
InsertSpillEnd(c) ==
  /\ inserters[c].pc = "spilling"
  /\ in_flush_buffer_size' = in_flush_buffer_size + inserters[c].flushed_size
  /\ memory_spill_lock' = Unlocked
  /\ inserters' = [inserters EXCEPT ![c] = NotInserting]
  /\ ret' = [op |-> "insert", ok |-> inserters[c].result, caller |-> c,
             locked |-> TRUE, holder |-> Unlocked]
  /\ UNCHANGED <<budget, ticket_budget, callback_on_store, writers, config, disks, held, ticketVars,
                 now, state, bus, acked, tierVars, block_seq, appended, reader>>

\* two tasks insert at the same time while the handler writes and releases
NextLock ==
  \/ \E uid \in AcctUIds, size \in SpillReqSizes : MemRequireBuffer(uid, size)
  \/ \E c \in Callers, uid \in AcctUIds : \E blocks \in NewBlocks(1, {0}, BlockLens) :
       InsertHot(c, uid, blocks, SumLen(blocks))
  \/ \E c \in Callers : InsertTryLock(c)
  \/ \E c \in Callers : InsertSpillEnd(c)
  \/ \E msg \in bus : HandlerWrite(msg, TRUE, TRUE)
  \/ \E msg \in acked : HandlerRelease(msg)

SpecLock == Init /\ [][NextLock]_vars

\* C26: at most one caller of insert is inside watermark_spill, and it holds
\* the spill lock; a caller that finds the lock taken returns in that step with
\* the result of its hot insert, without running a spill pass
C26_OneSpillPass ==
  /\ [](/\ Cardinality({c \in Callers : inserters[c].pc = "spilling"}) <= 1
        /\ \A c \in Callers : inserters[c].pc = "spilling" <=> memory_spill_lock = c)
  /\ [][\A c \in Callers :
          (inserters[c].pc = "inserted" /\ inserters'[c].pc # "inserted"
           /\ memory_spill_lock \notin {Unlocked, c}) =>
            /\ ret' = [op |-> "insert", ok |-> inserters[c].result, caller |-> c,
                       locked |-> FALSE, holder |-> memory_spill_lock]
            /\ inserters'[c].pc = "idle"
            /\ UNCHANGED <<memory_spill_lock, state, bus, in_flush_buffer_size>>]_vars

\* one caller is inside watermark_spill while the other, whose hot insert
\* succeeded, has just returned without the lock
C26_Witness ==
  /\ ret.op = "insert" /\ ~ret.locked /\ ret.ok
  /\ \E c \in Callers : c # ret.caller /\ inserters[c].pc = "spilling"
                        /\ memory_spill_lock = c

(***************************************************************************)
(* Order of the index records of a flight                                   *)
(***************************************************************************)
\* flights of two blocks of any two task attempts, written to the tier the
\* handler selects in a store of any storage type
NextOrder ==
  \/ \E uid \in AcctUIds, size \in SpillReqSizes : MemRequireBuffer(uid, size)
  \/ \E uid \in AcctUIds : \E blocks \in NewBlocks(2, TaskIds, RetryBlockLens) :
       HybridInsert(uid, blocks, SumLen(blocks))
  \/ \E msg \in bus : \E warm_is_healthy \in WarmIsHealthy(config) :
       HandlerWrite(msg, warm_is_healthy, TRUE)

SpecOrder == InitConfig /\ [][NextOrder]_vars

\* the index records a successful write of msg added to the tier it went to
NewRecords(msg) ==
  SubSeq(files'[ret'.tier][msg.uid].index,
         Len(files[ret'.tier][msg.uid].index) + 1,
         Len(files'[ret'.tier][msg.uid].index))

\* the step is a successful write of msg
Wrote(msg) ==
  /\ msg \in bus /\ msg \notin bus'
  /\ ret'.op = "spill" /\ ret'.ok
  /\ ret'.uid = msg.uid /\ ret'.flight_id = msg.flight_id

\* C27 as stated: the index records a write adds list the blocks of the flight
\* in their staging order, whatever the tier
C27_StagingOrder ==
  [][\A msg \in bus :
       Wrote(msg) =>
         [i \in 1..Len(NewRecords(msg)) |-> NewRecords(msg)[i].block_id]
           = Ids(msg.blocks)]_vars

\* C27: the index records a write adds are the blocks of the flight, each
\* once; on the local file store in their staging order; on the hdfs store
\* in ascending task_attempt_id and, within one task attempt, in staging order
C27_OrderByTaskAttempt ==
  [][\A msg \in bus :
       Wrote(msg) =>
         LET recs == NewRecords(msg)
             pos(b) == CHOOSE i \in 1..Len(msg.blocks) : msg.blocks[i].block_id = b
         IN /\ Len(recs) = Len(msg.blocks)
            /\ {recs[i].block_id : i \in 1..Len(recs)}
                 = {msg.blocks[i].block_id : i \in 1..Len(msg.blocks)}
            /\ store_of(config, ret'.tier) = "localfile" =>
                 [i \in 1..Len(recs) |-> recs[i].block_id] = Ids(msg.blocks)
            /\ store_of(config, ret'.tier) = "hdfs" =>
                 \A i, j \in 1..Len(recs) :
                    i < j =>
                      \/ recs[i].task_attempt_id < recs[j].task_attempt_id
                      \/ /\ recs[i].task_attempt_id = recs[j].task_attempt_id
                         /\ pos(recs[i].block_id) < pos(recs[j].block_id)]_vars

\* a flight whose first block is of a later task attempt than its second was
\* written to the hdfs store: the index lists the second block first
C27_Witness ==
  /\ ret.op = "spill" /\ ret.ok
  /\ store_of(config, ret.tier) = "hdfs"
  /\ \E msg \in acked :
       /\ msg.uid = ret.uid /\ msg.flight_id = ret.flight_id
       /\ Len(msg.blocks) = 2
       /\ msg.blocks[1].task_attempt_id > msg.blocks[2].task_attempt_id
       /\ Len(files[ret.tier][ret.uid].index) = 2
       /\ files[ret.tier][ret.uid].index[1].block_id = msg.blocks[2].block_id
       /\ files[ret.tier][ret.uid].index[2].block_id = msg.blocks[1].block_id

(***************************************************************************)
(* Offsets of the index records of the remote store                         *)
(***************************************************************************)
\* spill_insert of flights of one block each, with appends that fail before
\* the data, or after the data and before the index, and are retried
NextOffsets ==
  \/ \E uid \in AcctUIds, size \in SpillReqSizes : MemRequireBuffer(uid, size)
  \/ \E uid \in AcctUIds : \E blocks \in NewBlocks(1, {0}, BlockLens) :
       HybridInsert(uid, blocks, SumLen(blocks))
  \/ \E msg \in bus : \E warm_is_healthy \in WarmIsHealthy(config), io \in IoOutcomes :
       HandlerWriteIO(msg, warm_is_healthy, io)
  \/ \E msg \in acked : HandlerRelease(msg)

\* MEMORY_HDFS: the hdfs store is the only persistent store
InitHdfs == InitStore(FALSE, StoreConfig(FALSE, TRUE, NoThreshold))

SpecOffsets == InitHdfs /\ [][NextOffsets]_vars

\* the tiers whose store is the hdfs store
HdfsTiers ==
  {t \in {"warm", "cold"} :
     \/ t = "warm" /\ config.warm_store = "hdfs"
     \/ t = "cold" /\ config.cold_store = "hdfs"}

\* every block with bytes in the data file of the partition has its index
\* record: no append of the partition failed without a retry that succeeded
Retried(f) ==
  {f.data[i][1] : i \in 1..Len(f.data)} = {f.index[i].block_id : i \in 1..Len(f.index)}

\* C28: for every partition of the remote store whose failed appends have
\* been retried, each index record's offset is where the bytes of its block
\* start in the data file, the offsets are the running sum of the lengths of
\* everything appended before, and the cached data_len is the length of the
\* data file
C28_OffsetsMatchData ==
  \A t \in HdfsTiers, uid \in UIds :
     LET f == files[t][uid] IN
     Retried(f) =>
       /\ \A i \in 1..Len(f.index) :
            /\ f.index[i].offset + f.index[i].length <= Len(f.data)
            /\ SubSeq(f.data, f.index[i].offset + 1,
                      f.index[i].offset + f.index[i].length)
                 = [k \in 1..f.index[i].length |-> <<f.index[i].block_id, k>>]
            /\ f.index[i].offset = IF i = 1 THEN 0
                                   ELSE f.index[i-1].offset + f.index[i-1].length
       /\ f.cached => f.data_len = Len(f.data)

(***************************************************************************)
(* HdfsStore: purge by directory prefix                                     *)
(***************************************************************************)
\* the tier the hdfs store is
hdfs_tier(cfg) == IF cfg.warm_store = "hdfs" THEN "warm" ELSE "cold"

\* a spill_insert that does not look the client up
HdfsSpillInsert_any_app(uid, blocks, io) ==
  LET t == hdfs_tier(config)
      has_client == TRUE
      w == data_insert(files[t][uid], sort_by_task_attempt_id(blocks, TaskIds), io)
  IN /\ "hdfs" \in {config.warm_store, config.cold_store}
     /\ block_seq + Len(blocks) <= MaxBlocks
     /\ \A i \in 1..Len(blocks) : blocks[i].block_id = block_seq + i
     /\ block_seq' = block_seq + Len(blocks)
     /\ files' = IF has_client THEN [files EXCEPT ![t][uid] = w.file]
                 ELSE [files EXCEPT ![t][uid].lock = TRUE]
     /\ ret' = [op |-> "hdfs_spill_insert", uid |-> uid, ok |-> has_client /\ w.ok,
                err |-> IF ~has_client THEN "APP_HAS_BEEN_PURGED"
                        ELSE IF w.ok THEN "" ELSE "io"]
     /\ UNCHANGED <<budget, ticket_budget, callback_on_store, writers, config, disks, lockVars, held,
                    ticketVars, now, state, spillVars, warm_idx, cold_idx, clients,
                    appended, reader>>

\* HdfsStore::spill_insert called on the hdfs store: the blocks sorted by task
\* attempt, then data_insert, which needs the client of the app
HdfsSpillInsert(uid, blocks, io) ==
  LET t == hdfs_tier(config)
      has_client == uid.app_id \in clients
      w == data_insert(files[t][uid], sort_by_task_attempt_id(blocks, TaskIds), io)
  IN /\ "hdfs" \in {config.warm_store, config.cold_store}
     /\ block_seq + Len(blocks) <= MaxBlocks
     /\ \A i \in 1..Len(blocks) : blocks[i].block_id = block_seq + i
     /\ block_seq' = block_seq + Len(blocks)
     /\ files' = IF has_client THEN [files EXCEPT ![t][uid] = w.file]
                 ELSE [files EXCEPT ![t][uid].lock = TRUE]
     /\ ret' = [op |-> "hdfs_spill_insert", uid |-> uid, ok |-> has_client /\ w.ok,
                err |-> IF ~has_client THEN "APP_HAS_BEEN_PURGED"
                        ELSE IF w.ok THEN "" ELSE "io"]
     /\ UNCHANGED <<budget, ticket_budget, callback_on_store, writers, config, disks, lockVars, held,
                    ticketVars, now, state, spillVars, warm_idx, cold_idx, clients,
                    appended, reader>>

\* the partition lock a task inside data_insert cloned out of
\* partition_file_locks: the Mutex the map holds for the path
InMap == "map"

\* partition_file_locks.remove(path) while tasks hold a clone of the Mutex: the
\* tasks keep the Mutex they cloned, which is no longer the one a later
\* entry(path).or_insert_with creates; the Mutex taken out of the map is
\* named after one of the tasks that share it
detach_lock(ws, removed) ==
  [w \in Writers |->
     IF ws[w].pc # "idle" /\ ws[w].lock = InMap /\ ws[w].uid \in removed
     THEN [ws[w] EXCEPT !.lock =
             CHOOSE o \in {x \in Writers : /\ ws[x].pc # "idle"
                                           /\ ws[x].lock = InMap
                                           /\ ws[x].uid = ws[w].uid} : TRUE]
     ELSE ws[w]]

\* HdfsStore::purge called on the hdfs store
HdfsPurge(app_id, shuffle_id, delete_ok) ==
  LET t == hdfs_tier(config)
      p == HdfsStore_purge_files(files[t], clients, app_id, shuffle_id, delete_ok)
  IN /\ "hdfs" \in {config.warm_store, config.cold_store}
     /\ files' = [files EXCEPT ![t] = p.files]
     /\ clients' = p.clients
     /\ writers' = detach_lock(writers, {u \in FileUIds : /\ files[t][u].lock
                                                         /\ ~p.files[u].lock})
     /\ ret' = [op |-> "hdfs_purge", app_id |-> app_id, shuffle_id |-> shuffle_id,
                ok |-> p.ok, val |-> p.val]
     /\ UNCHANGED <<budget, ticket_budget, callback_on_store, config, disks, lockVars, held,
                    ticketVars, now, state, spillVars, warm_idx, cold_idx, block_seq,
                    appended, reader>>

\* HdfsStore::register_app: the client of the app is created unless there is one
HdfsRegisterApp(app_id) ==
  /\ "hdfs" \in {config.warm_store, config.cold_store}
  /\ clients' = clients \cup {app_id}
  /\ ret' = [op |-> "register_app", app_id |-> app_id]
  /\ UNCHANGED <<budget, ticket_budget, callback_on_store, writers, config, disks, lockVars, held,
                 ticketVars, now, state, spillVars, warm_idx, cold_idx, files, block_seq,
                 appended, reader>>

\* the shuffle ids of the purges of the hdfs store: two ids of which one
\* starts with the digits of the other, or none
HdfsPurgeShuffles == {NoShuffle, 1, 10}

\* partitions of two shuffles of one app and of another app
PathUIds == {u \in FileUIds : u.app_id = "a2" \/ u.shuffle_id \in {1, 10}}

\* writes to the partitions of the hdfs store, purges of apps and shuffles
\* whose delete_dir succeeds or fails, registrations
NextHdfsPurge ==
  \/ \E uid \in PathUIds : \E blocks \in NewBlocks(1, {0}, RetryBlockLens) :
       HdfsSpillInsert(uid, blocks, "ok")
  \/ \E app_id \in Apps, shuffle_id \in HdfsPurgeShuffles, delete_ok \in BOOLEAN :
       HdfsPurge(app_id, shuffle_id, delete_ok)
  \/ \E app_id \in Apps : HdfsRegisterApp(app_id)

SpecHdfsPurge == InitHdfs /\ [][NextHdfsPurge]_vars

HoldingLock == {"locked", "read", "appended"}
\* the steps between reading the cached next offset and resetting it
BetweenReadAndReset == {"read", "appended"}

\* Mutex::lock returns when no other task holds the same Mutex: the Mutex of
\* the same path that is in the map, or the same Mutex taken out of the map
lock_free(ws, w) ==
  \A o \in Writers \ {w} :
     ~(/\ ws[o].pc \in HoldingLock
       /\ ws[o].uid = ws[w].uid
       /\ ws[o].lock = ws[w].lock)

\* Semaphore::new(conf.max_concurrency)
max_concurrency == 2

\* a limiter that never runs out of permits
permit_available_always(ws) == TRUE

\* concurrency_access_limiter.acquire() returns when fewer than max_concurrency
\* tasks hold a permit; a task holds its permit from there until it returns
permit_available(ws) ==
  Cardinality({o \in Writers : ws[o].pc # "idle"}) < max_concurrency

\* data_insert up to the clone of the partition lock: the permit of the
\* limiter, then the entry of the path in partition_file_locks, created when
\* there is none
WriterEnter(w, uid, blocks) ==
  LET t == hdfs_tier(config)
  IN /\ "hdfs" \in {config.warm_store, config.cold_store}
     /\ writers[w].pc = "idle"
     /\ permit_available(writers)
     /\ block_seq + Len(blocks) <= MaxBlocks
     /\ \A i \in 1..Len(blocks) : blocks[i].block_id = block_seq + i
     /\ block_seq' = block_seq + Len(blocks)
     /\ files' = [files EXCEPT ![t][uid].lock = TRUE]
     /\ writers' = [writers EXCEPT ![w] =
                      [pc |-> "entered", uid |-> uid, lock |-> InMap,
                       blocks |-> sort_by_task_attempt_id(blocks, TaskIds),
                       next_offset |-> 0]]
     /\ UNCHANGED <<budget, ticket_budget, callback_on_store, config, disks, lockVars, held,
                    ticketVars, now, state, spillVars, warm_idx, cold_idx, clients,
                    appended, reader, ret>>

\* lock_cloned.lock().await
WriterLock(w) ==
  /\ writers[w].pc = "entered"
  /\ lock_free(writers, w)
  /\ writers' = [writers EXCEPT ![w].pc = "locked"]
  /\ UNCHANGED <<budget, ticket_budget, callback_on_store, config, disks, lockVars, held,
                 ticketVars, now, state, spillVars, tierVars, block_seq, appended,
                 reader, ret>>

\* the client of the app, else APP_HAS_BEEN_PURGED; then the next offset: the
\* cached data_len, or without cached meta the directory and the two files are
\* created (create fails on a file that exists), the default meta is cached
\* and the offset is 0
WriterReadOffset(w) ==
  LET t == hdfs_tier(config)
      uid == writers[w].uid
      f == files[t][uid]
      has_client == uid.app_id \in clients
      create_fails == ~f.cached /\ f.exists
  IN /\ writers[w].pc = "locked"
     /\ IF ~has_client \/ create_fails
        THEN /\ writers' = [writers EXCEPT ![w] = NotWriting]
             /\ ret' = [op |-> "data_insert", writer |-> w, uid |-> uid, ok |-> FALSE,
                        err |-> IF ~has_client THEN "APP_HAS_BEEN_PURGED" ELSE "io"]
             /\ UNCHANGED files
        ELSE /\ writers' = [writers EXCEPT ![w].pc = "read",
                                           ![w].next_offset =
                                              IF f.cached THEN f.data_len ELSE 0]
             /\ files' = IF f.cached THEN files
                         ELSE [files EXCEPT ![t][uid].cached = TRUE,
                                            ![t][uid].data_len = 0,
                                            ![t][uid].exists = TRUE]
             /\ UNCHANGED ret
     /\ UNCHANGED <<budget, ticket_budget, callback_on_store, config, disks, lockVars, held,
                    ticketVars, now, state, spillVars, warm_idx, cold_idx, clients,
                    block_seq, appended, reader>>

\* the two appends: the data, then the index records that start at the offset
\* the task read; an append fails on a file that is gone, or for io
WriterAppend(w, io) ==
  LET t == hdfs_tier(config)
      uid == writers[w].uid
      f == files[t][uid]
      blocks == writers[w].blocks
      data_ok == f.exists /\ io # "data_err"
      index_ok == data_ok /\ io # "index_err"
  IN /\ writers[w].pc = "read"
     /\ files' = [files EXCEPT
                    ![t][uid].data = IF data_ok THEN @ \o data_bytes(blocks) ELSE @,
                    ![t][uid].index =
                       IF index_ok
                       THEN @ \o index_records(blocks, writers[w].next_offset)
                       ELSE @]
     /\ IF index_ok
        THEN /\ writers' = [writers EXCEPT ![w].pc = "appended"]
             /\ UNCHANGED ret
        ELSE /\ writers' = [writers EXCEPT ![w] = NotWriting]
             /\ ret' = [op |-> "data_insert", writer |-> w, uid |-> uid, ok |-> FALSE,
                        err |-> "io"]
     /\ UNCHANGED <<budget, ticket_budget, callback_on_store, config, disks, lockVars, held,
                    ticketVars, now, state, spillVars, warm_idx, cold_idx, clients,
                    block_seq, appended, reader>>

\* partition_cached_meta.get_mut(path), else APP_HAS_BEEN_PURGED; the cached
\* data_len is reset to the offset the task read plus what it wrote, and the
\* lock is released as the task returns
WriterReset(w) ==
  LET t == hdfs_tier(config)
      uid == writers[w].uid
      f == files[t][uid]
  IN /\ writers[w].pc = "appended"
     /\ writers' = [writers EXCEPT ![w] = NotWriting]
     /\ files' = IF f.cached
                 THEN [files EXCEPT ![t][uid].data_len =
                          writers[w].next_offset + SumLen(writers[w].blocks)]
                 ELSE files
     /\ ret' = [op |-> "data_insert", writer |-> w, uid |-> uid, ok |-> f.cached,
                err |-> IF f.cached THEN "" ELSE "APP_HAS_BEEN_PURGED"]
     /\ UNCHANGED <<budget, ticket_budget, callback_on_store, config, disks, lockVars, held,
                    ticketVars, now, state, spillVars, warm_idx, cold_idx, clients,
                    block_seq, appended, reader>>

\* two partitions of one app, in two shuffles
WriterUIds == {u \in FileUIds : u.app_id = "a1" /\ u.shuffle_id \in {1, 10}}

\* the two tasks of the race with the purge
RaceWriters == {"w1", "w2"}

\* two tasks write to two partitions of an app while one shuffle or the app
\* is purged and the app registered again
NextWriters ==
  \/ \E w \in RaceWriters, uid \in WriterUIds :
       \E blocks \in NewBlocks(1, {0}, RetryBlockLens) : WriterEnter(w, uid, blocks)
  \/ \E w \in RaceWriters : WriterLock(w)
  \/ \E w \in RaceWriters : WriterReadOffset(w)
  \/ \E w \in RaceWriters, io \in IoOutcomes : WriterAppend(w, io)
  \/ \E w \in RaceWriters : WriterReset(w)
  \/ \E shuffle_id \in {NoShuffle, 1} : HdfsPurge("a1", shuffle_id, TRUE)
  \/ HdfsRegisterApp("a1")

SpecWriters == InitHdfs /\ [][NextWriters]_vars

\* C30: no two tasks are at the same time between reading the cached next
\* offset of the same data file and resetting it, whatever purges run
C30_WritesSerialize ==
  \A w \in Writers : \A o \in Writers \ {w} :
     ~(/\ writers[w].pc \in BetweenReadAndReset
       /\ writers[o].pc \in BetweenReadAndReset
       /\ writers[w].uid = writers[o].uid)

(***************************************************************************)
(* Selection of the buffers to spill                                        *)
(***************************************************************************)
\* MemoryStore::calculate_spilled_blocks called with a target on the buffers
\* of the store
PickupSpillBlocks(mem_target_len, pick_order) ==
  /\ pick_order \in DescendingOrders(state)
  /\ ret' = [op |-> "pickup_spill_blocks", mem_target_len |-> mem_target_len,
             picked |-> calculate_spilled_blocks(state, budget, mem_target_len,
                                                 pick_order)]
  /\ UNCHANGED <<budget, ticket_budget, callback_on_store, writers, config, disks, lockVars,
                 held, ticketVars, now, state, spillVars, tierVars, block_seq,
                 appended, reader>>

\* a reservation that alone stays at the high watermark
PickReqSizes == {(Capacity * HighWatermarkPct) \div 100}
\* the targets of the selection: up to the one of watermark_spill, and one that
\* used never exceeds
PickTargets == (0..mem_target_of(Capacity)) \cup {Capacity}

\* reservations, inserts into every partition with the watermark spill, and
\* selections with every target
NextPick ==
  \/ \E uid \in AcctUIds, size \in PickReqSizes : MemRequireBuffer(uid, size)
  \/ \E uid \in UIds : \E blocks \in NewBlocks(1, {0}, BlockLens) :
       HybridInsert(uid, blocks, SumLen(blocks))
  \/ \E mem_target_len \in PickTargets : \E pick_order \in DescendingOrders(state) :
       PickupSpillBlocks(mem_target_len, pick_order)

SpecPick == InitLocalfile /\ [][NextPick]_vars

\* the staging bytes of a set of buffers
StagingOf(st, S) == SumOver([u \in S |-> st[u].staging_size], S)

\* C31: with used <= T nothing is selected; else every selected buffer has a
\* staging size >= that of every unselected one, the selected staging sizes
\* sum to at least used - T unless every buffer is selected, and without a
\* smallest selected buffer the sum is below used - T
C31_SpillSelection ==
  [][ret'.op = "pickup_spill_blocks" =>
       LET picked == ret'.picked
           required == budget.used - ret'.mem_target_len
       IN IF required <= 0 THEN picked = {}
          ELSE /\ picked \subseteq DOMAIN state
               /\ \A u \in picked : \A o \in (DOMAIN state) \ picked :
                    state[u].staging_size >= state[o].staging_size
               /\ StagingOf(state, picked) >= required \/ picked = DOMAIN state
               /\ \A u \in picked :
                    (\A o \in picked : state[u].staging_size <= state[o].staging_size)
                      => StagingOf(state, picked) - state[u].staging_size < required]_vars

\* two of three buffers are selected: their staging covers used - T, and the
\* larger of them alone does not
C31_Witness ==
  /\ ret.op = "pickup_spill_blocks"
  /\ Cardinality(ret.picked) = 2
  /\ Cardinality(DOMAIN state) = 3
  /\ budget.used > ret.mem_target_len
  /\ StagingOf(state, ret.picked) >= budget.used - ret.mem_target_len
  /\ \A u \in ret.picked : state[u].staging_size < budget.used - ret.mem_target_len

(***************************************************************************)
(* When a watermark spill pass runs                                         *)
(***************************************************************************)
\* a memory-only store or a MEMORY_LOCALFILE store
InitWatermark ==
  \E cfg \in {StoreConfig(FALSE, FALSE, NoThreshold),
               StoreConfig(TRUE, FALSE, NoThreshold)} : InitStore(FALSE, cfg)

\* reservations below, at and above the high watermark, inserts, and the
\* spill handler
NextWatermark ==
  \/ \E uid \in AcctUIds, size \in ReqSizes \cup PickReqSizes :
       MemRequireBuffer(uid, size)
  \/ \E uid \in AcctUIds : \E blocks \in NewBlocks(1, {0}, BlockLens) :
       HybridInsert(uid, blocks, SumLen(blocks))
  \/ \E msg \in bus : HandlerWrite(msg, TRUE, TRUE)
  \/ \E msg \in acked : HandlerRelease(msg)

SpecWatermark == InitWatermark /\ [][NextWatermark]_vars

\* a buffer got a flight in this step
FlightCreated ==
  \E u \in DOMAIN state' :
     get_buffer(state', u).flight_counter > get_buffer(state, u).flight_counter

\* a message of a watermark spill was published in this step
SpillPublished == \E msg \in bus' \ bus : msg.retry_cnt = 0

\* C32: a flight is created or a spill message published only by an insert,
\* only with a persistent tier, and only when after the hot insert
\* (used + allocated - in-flight) / capacity is above the high watermark; a
\* memory-only store has no flight and no message
C32_SpillOnlyOverHighWatermark ==
  /\ [][(FlightCreated \/ SpillPublished) =>
          /\ ret'.op = "insert"
          /\ ~is_memory_only(config)
          /\ (budget'.used + budget'.allocated - in_flush_buffer_size) * 100
               > HighWatermarkPct * budget'.capacity]_vars
  /\ [](is_memory_only(config) =>
          /\ bus = {}
          /\ \A u \in DOMAIN state : state[u].flight_counter = 0)

\* an insert that left the usage above the high watermark was followed by a
\* spill pass: its message is queued, its bytes are in flight
C32_Witness ==
  /\ ret.op = "insert"
  /\ ~is_memory_only(config)
  /\ \E msg \in bus : /\ msg.retry_cnt = 0
                       /\ msg.flight_id \in DOMAIN state[msg.uid].flights
  /\ in_flush_buffer_size > 0

(***************************************************************************)
(* Flights and their spill messages                                         *)
(***************************************************************************)
\* the spill messages that are queued, awaiting a retry, or written and not
\* yet released
Outstanding == bus \cup acked

\* C33: a buffer holds a flight exactly when a spill message of that flight is
\* outstanding, also after watermark_spill failed to publish a message
C33_FlightIffOutstanding ==
  /\ \A u \in DOMAIN state : \A fid \in DOMAIN state[u].flights :
        \E msg \in Outstanding : msg.uid = u /\ msg.flight_id = fid
  /\ \A msg \in Outstanding :
        msg.flight_id \in DOMAIN get_buffer(state, msg.uid).flights

\* C34: release_data_in_memory of a flight the buffer of the partition does
\* not hold returns an error and changes neither used, nor the in-flight
\* counter, nor the buffers
C34_UnknownFlightNoChange ==
  [][(/\ ret'.op = "release_data_in_memory"
      /\ ret'.flight_id \notin DOMAIN get_buffer(state, ret'.uid).flights) =>
       /\ ~ret'.ok
       /\ budget'.used = budget.used
       /\ in_flush_buffer_size' = in_flush_buffer_size
       /\ state' = state]_vars

\* C35: spill_insert on the hdfs store for an app without a client fails with
\* APP_HAS_BEEN_PURGED, touches no file, and leaves the cached meta of every
\* partition as it was
C35_NoClientNoWrite ==
  [][(ret'.op = "hdfs_spill_insert" /\ ret'.uid.app_id \notin clients) =>
       /\ ~ret'.ok /\ ret'.err = "APP_HAS_BEEN_PURGED"
       /\ \A t \in {"warm", "cold"} : \A u \in FileUIds :
            /\ files'[t][u].cached = files[t][u].cached
            /\ files'[t][u].data_len = files[t][u].data_len
            /\ files'[t][u].exists = files[t][u].exists
            /\ files'[t][u].data = files[t][u].data
            /\ files'[t][u].index = files[t][u].index]_vars

\* a write for an app whose client a purge removed was refused, while the
\* other app has written
C35_Witness ==
  /\ ret.op = "hdfs_spill_insert" /\ ~ret.ok /\ ret.err = "APP_HAS_BEEN_PURGED"
  /\ ret.uid.app_id \notin clients
  /\ ~files[hdfs_tier(config)][ret.uid].cached
  /\ \E u \in FileUIds : files[hdfs_tier(config)][u].data_len > 0

(***************************************************************************)
(* HdfsStore::data_insert: the limiter and the partition lock               *)
(***************************************************************************)
\* three tasks write to two partitions with two permits, and their remote
\* calls succeed or fail
NextLimiter ==
  \/ \E w \in Writers, uid \in WriterUIds :
       \E blocks \in NewBlocks(1, {0}, RetryBlockLens) : WriterEnter(w, uid, blocks)
  \/ \E w \in Writers : WriterLock(w)
  \/ \E w \in Writers : WriterReadOffset(w)
  \/ \E w \in Writers, io \in {"ok", "data_err"} : WriterAppend(w, io)
  \/ \E w \in Writers : WriterReset(w)

\* every task that holds a permit is scheduled and its remote calls return;
\* the tokio Mutex hands the lock to its waiters in turn
SpecLimiter ==
  /\ InitHdfs
  /\ [][NextLimiter]_vars
  /\ \A w \in Writers :
        /\ SF_vars(WriterLock(w))
        /\ WF_vars(WriterReadOffset(w))
        /\ WF_vars(\E io \in {"ok", "data_err"} : WriterAppend(w, io))
        /\ WF_vars(WriterReset(w))

\* the task is inside data_insert, with a permit
HoldsPermit(w) == writers[w].pc # "idle"
\* the task has returned from data_insert
Returned(w) == writers[w].pc = "idle"

\* C36: at most max_concurrency tasks hold a permit; a task that returns from
\* data_insert, with Ok or with an error, holds neither a permit nor the
\* partition lock; and every task that started data_insert returns
C36_BoundedAndLive ==
  /\ [](Cardinality({w \in Writers : HoldsPermit(w)}) <= max_concurrency)
  /\ [][\A w \in Writers :
          (ret'.op = "data_insert" /\ ret'.writer = w /\ ret' # ret) =>
            /\ ~(writers'[w].pc # "idle")
            /\ writers'[w].pc \notin HoldingLock]_vars
  /\ \A w \in Writers : HoldsPermit(w) ~> Returned(w)

\* two tasks hold the two permits, one with the lock of a partition and one
\* waiting for it, while the third task is outside
C36_Witness ==
  \E w \in Writers : \E o \in Writers \ {w} :
     /\ writers[w].pc \in HoldingLock
     /\ writers[o].pc = "entered"
     /\ writers[o].uid = writers[w].uid
     /\ writers[o].lock = writers[w].lock
     /\ ~permit_available(writers)
     /\ \E x \in Writers : writers[x].pc = "idle"

(***************************************************************************)
(* The in-flight counter                                                    *)
(***************************************************************************)
\* C37: the in-flight counter, read as the i64 that calculate_usage_ratio
\* makes of it, is never negative, that is the u64 never wrapped, and it is 0
\* when no spill message is outstanding and no insert is in progress
C37_InflightExact ==
  /\ in_flush_buffer_size >= 0
  /\ (Outstanding = {} /\ \A c \in Callers : inserters[c].pc = "idle")
       => in_flush_buffer_size = 0

(***************************************************************************)
(* MemoryStore::insert in steps, racing with purge                          *)
(***************************************************************************)
\* MemoryStore::insert of caller c, first step: get_or_create_memory_buffer
\* gives the buffer of the partition, creating it in the map when absent
InsertObtain(c, uid, blocks, size) ==
  /\ inserters[c].pc = "idle"
  /\ block_seq + Len(blocks) <= MaxBlocks
  /\ \A i \in 1..Len(blocks) : blocks[i].block_id = block_seq + i
  /\ block_seq' = block_seq + Len(blocks)
  /\ state' = get_or_create_memory_buffer(state, uid)
  /\ inserters' = [inserters EXCEPT ![c] =
                     [pc |-> "obtained", result |-> TRUE, uid |-> uid,
                      blocks |-> blocks, size |-> size, detached |-> FALSE,
                      buf |-> MemoryBuffer_new]]
  /\ ret' = [op |-> "get_or_create_memory_buffer", uid |-> uid]
  /\ UNCHANGED <<budget, ticket_budget, callback_on_store, writers, config, disks,
                 memory_spill_lock, held, ticketVars, now, spillVars, tierVars,
                 appended, reader>>

\* MemoryStore::insert of caller c, the rest: append to the buffer obtained,
\* which a purge may have removed from the map since, then
\* move_allocated_to_used; a memory-only store returns here
InsertAppend(c) ==
  LET i == inserters[c]
      buf == buffer_append(IF i.detached THEN i.buf ELSE state[i.uid], i.blocks, i.size)
      mv == move_allocated_to_used(budget, i.size)
  IN /\ i.pc = "obtained"
     /\ state' = IF i.detached THEN state ELSE [state EXCEPT ![i.uid] = buf]
     /\ appended' = IF i.detached THEN appended
                    ELSE [appended EXCEPT ![i.uid] = @ \o Ids(i.blocks)]
     /\ budget' = mv.b
     /\ IF is_memory_only(config)
        THEN /\ ret' = [op |-> "insert", ok |-> mv.ok, caller |-> c]
             /\ inserters' = [inserters EXCEPT ![c] = NotInserting]
        ELSE /\ ret' = [op |-> "hot_insert", ok |-> mv.ok, caller |-> c]
             /\ inserters' = [inserters EXCEPT ![c] = [pc |-> "inserted", result |-> mv.ok]]
     /\ UNCHANGED <<ticket_budget, callback_on_store, writers, config, disks,
                    memory_spill_lock, held, ticketVars, now, spillVars, tierVars,
                    block_seq, reader>>

\* the bytes reserved and not yet inserted cover one more insert of this size
Reserved(size) ==
  budget.allocated >=
    size + SumOver([c \in {x \in Callers : inserters[x].pc = "obtained"} |->
                      inserters[c].size],
                   {x \in Callers : inserters[x].pc = "obtained"})

\* two tasks insert what was reserved, in steps, while the handler writes
\* and releases and the app is purged
NextInsertRace ==
  \/ \E uid \in AcctUIds, size \in SpillReqSizes : MemRequireBuffer(uid, size)
  \/ \E c \in Callers, uid \in AcctUIds : \E blocks \in NewBlocks(1, {0}, BlockLens) :
       Reserved(SumLen(blocks)) /\ InsertObtain(c, uid, blocks, SumLen(blocks))
  \/ \E c \in Callers : InsertAppend(c)
  \/ \E c \in Callers : InsertTryLock(c)
  \/ \E c \in Callers : InsertSpillEnd(c)
  \/ \E msg \in bus : HandlerWrite(msg, TRUE, TRUE)
  \/ \E msg \in acked : HandlerRelease(msg)
  \/ HybridPurge("a1", NoShuffle)

SpecInsertRace == Init /\ [][NextInsertRace]_vars

\* C38: when no insert is in progress, used is the sum of total_size over the
\* buffers in the partition map
C38_UsedIsSumOfBuffers ==
  (\A c \in Callers : inserters[c].pc = "idle") =>
    budget.used = SumOver([u \in DOMAIN state |-> state[u].total_size], DOMAIN state)

(***************************************************************************)
(* Tickets whose bytes are inserted                                         *)
(***************************************************************************)
\* MemoryStore::insert for the client that holds ticket t: the blocks carry
\* the bytes the ticket reserved; the ticket itself is not touched
InsertReserved(t, uid, blocks) ==
  LET ins == MemoryStore_insert(state, budget, uid, blocks, SumLen(blocks)) IN
  /\ t \in DOMAIN tickets
  /\ SumLen(blocks) = tickets[t].size
  /\ block_seq + Len(blocks) <= MaxBlocks
  /\ \A i \in 1..Len(blocks) : blocks[i].block_id = block_seq + i
  /\ state' = ins.state
  /\ budget' = ins.budget
  /\ block_seq' = block_seq + Len(blocks)
  /\ appended' = [appended EXCEPT ![uid] = @ \o Ids(blocks)]
  /\ ret' = [op |-> "insert", ok |-> ins.ok, ticket_id |-> t]
  /\ UNCHANGED <<ticket_budget, callback_on_store, writers, config, disks, lockVars,
                 held, ticketVars, now, spillVars, tierVars, reader>>

\* reservations of one block's bytes, inserted, released or left to the reaper
NextConsume ==
  \/ \E uid \in AcctUIds, size \in BlockLens : MemRequireBuffer(uid, size)
  \/ \E t \in 1..MaxTickets, uid \in AcctUIds : \E blocks \in NewBlocks(1, {0}, BlockLens) :
       InsertReserved(t, uid, blocks)
  \/ \E t \in 1..MaxTickets : MemReleaseTicket(t)
  \/ Tick
  \/ \E t \in 1..MaxTickets : ReapTicket(t)

SpecConsume == InitAny /\ [][NextConsume]_vars

\* C39: the bytes of a ticket that an insert has moved to used are not taken
\* from allocated again: the reaper or a release that handles the ticket right
\* after its insert leaves allocated as it is
C39_ConsumedNotDecrementedAgain ==
  [][(/\ ret.op = "insert" /\ ret.ok
      /\ ret'.op \in {"reap", "release_ticket"}
      /\ ret'.ticket_id = ret.ticket_id) =>
       budget'.allocated = budget.allocated]_vars

\* C40: a watermark spill pass takes no buffer whose staging is empty: no
\* flight without blocks is created and no spill message of size 0 is queued
C40_NoEmptySpill ==
  /\ \A msg \in bus : msg.size > 0 /\ msg.blocks # <<>>
  /\ \A uid \in DOMAIN state : \A f \in DOMAIN state[uid].flights :
       state[uid].flights[f] # <<>>

====
